---- MODULE Spec2Model ----
(***************************************************************************)
(* A model of github.com/keep94/sqrt: the pencil-and-paper n-th root digit *)
(* generator, the memoizer that runs a generator in a background goroutine *)
(* and serves concurrent readers, and the Context that owns memoizers.     *)
(*                                                                         *)
(* src/numberspec.go holds two versions of the memoizer, one after the     *)
(* other; the model follows the second (lines 185-409), the one with the   *)
(* background goroutine, the context and the two condition variables.      *)
(***************************************************************************)
EXTENDS Integers, Sequences, FiniteSets, TLC

VARIABLES
    gen,        \* the n-th root generator under test: its inputs, closure state and output
    ctx,        \* the Context: ctxt.active, ctxt.closed, mu and specs
    memo,       \* the memoizers, by id: fields, iter closure and the state of run()
    th,         \* the threads that call wait: where each is and what it has read
    cl,         \* the thread that calls Context.Close: where it is
    fac,        \* what the last factory call on the Context came to
    vw,         \* the view each reader reads through: the objects built and the call made
    usr,        \* the caller's own memory: the arguments it handed to a factory
    fmt         \* the Format, String or Exact call in progress: its formatter and writer

vars == <<gen, ctx, memo, th, cl, fac, vw, usr, fmt>>

memoVars == <<ctx, memo, th, cl, fac, vw, usr, fmt>>

(***************************************************************************)
(* Bounds of the model.                                                    *)
(***************************************************************************)
\* Radicands are num/denom with 1 <= num <= MaxNum and 1 <= denom <= MaxDenom.
MaxNum == 30
MaxDenom == 12
\* Digits are drawn while n * (digits drawn - exp) stays below MaxPow, so that
\* 10^(n*(k-exp)) * num stays inside TLC's 32 bit integers.
MaxPow == 6

(***************************************************************************)
(* Integer helpers.                                                        *)
(***************************************************************************)
\* The element of a set of one element.  {e(a) : a \in {v}} names the value v
\* as a in e, so that e works on the value and not on the expression of it.
The(S) == CHOOSE x \in S : TRUE

RECURSIVE Pow(_, _)
Pow(b, e) == IF e <= 0 THEN 1 ELSE b * Pow(b, e - 1)

\* The integer d1 d2 ... dk written by a sequence of decimal digits.
RECURSIVE DigitsValue(_)
DigitsValue(ds) ==
    IF ds = <<>> THEN 0
    ELSE 10 * DigitsValue(SubSeq(ds, 1, Len(ds) - 1)) + ds[Len(ds)]

(***************************************************************************)
(* rootManager: sqrtManager and cubeRootManager.  A manager is the record  *)
(* [n, incr2]; incr2 is cubeRootManager's field and is unused for n = 2.   *)
(***************************************************************************)
newSqrtManager == [n |-> 2, incr2 |-> 0]

newCubeRootManager == [n |-> 3, incr2 |-> 6]

Base(mgr) == IF mgr.n = 2 THEN 100 ELSE 1000

SqrtNextAddsOne(mgr, incr) == [incr |-> incr + 1, mgr |-> mgr]

\* sqrtManager.Next: incr += 2
SqrtNext(mgr, incr) == [incr |-> incr + 2, mgr |-> mgr]

CubeNextKeepsIncr2(mgr, incr) == [incr |-> incr + mgr.incr2, mgr |-> mgr]

\* cubeRootManager.Next: incr += incr2; incr2 += 6
CubeNext(mgr, incr) ==
    [incr |-> incr + mgr.incr2, mgr |-> [mgr EXCEPT !.incr2 = mgr.incr2 + 6]]

ManagerNext(mgr, incr) ==
    IF mgr.n = 2 THEN SqrtNext(mgr, incr) ELSE CubeNext(mgr, incr)

SqrtNextDigitDropsMinusOne(mgr, incr) == [incr |-> incr * 10 + 1, mgr |-> mgr]

\* sqrtManager.NextDigit: incr = (incr - 1) * 10 + 1
SqrtNextDigit(mgr, incr) == [incr |-> (incr - 1) * 10 + 1, mgr |-> mgr]

\* cubeRootManager.NextDigit: incr = incr*100 - 45*incr2 + 171; incr2 = incr2*10 - 54
CubeNextDigit(mgr, incr) ==
    [incr |-> incr * 100 - 45 * mgr.incr2 + 171,
     mgr  |-> [mgr EXCEPT !.incr2 = mgr.incr2 * 10 - 54]]

ManagerNextDigit(mgr, incr) ==
    IF mgr.n = 2 THEN SqrtNextDigit(mgr, incr) ELSE CubeNextDigit(mgr, incr)

(***************************************************************************)
(* computeGroupsFromRational: the three normalisation loops and the exp    *)
(* they compute.  A state of the loops is [num, denom, exp].               *)
(***************************************************************************)
\* for num.Cmp(denom) < 0 { exp--; num.Mul(num, base) }
RECURSIVE ShiftUp(_, _)
ShiftUp(s, base) ==
    IF s.num < s.denom
    THEN ShiftUp([s EXCEPT !.exp = s.exp - 1, !.num = s.num * base], base)
    ELSE s

UndoOneKeepsExp(s, base) ==
    IF s.exp < 0
    THEN [s EXCEPT !.num = s.num \div base]
    ELSE s

\* if exp < 0 { exp++; num.Div(num, base) }
UndoOne(s, base) ==
    IF s.exp < 0
    THEN [s EXCEPT !.exp = s.exp + 1, !.num = s.num \div base]
    ELSE s

\* for num.Cmp(denom) >= 0 { exp++; denom.Mul(denom, base) }
RECURSIVE ShiftDown(_, _)
ShiftDown(s, base) ==
    IF s.num >= s.denom
    THEN ShiftDown([s EXCEPT !.exp = s.exp + 1, !.denom = s.denom * base], base)
    ELSE s

computeGroupsFromRational(num, denom, base) ==
    ShiftDown(UndoOne(ShiftUp([num |-> num, denom |-> denom, exp |-> 0], base), base), base)

\* The groups closure: nil when num = 0, else num *= base; (group, num) = DivMod(num, denom).
groups(g, base) ==
    IF g.num = 0
    THEN [nil |-> TRUE, group |-> 0, num |-> 0]
    ELSE [nil |-> FALSE,
          group |-> (g.num * base) \div g.denom,
          num   |-> (g.num * base) % g.denom]

(***************************************************************************)
(* computeRootDigits: the closure's digit loop and one call of it.         *)
(***************************************************************************)
\* for remainder.Cmp(incr) >= 0 { remainder.Sub(remainder, incr); digit++; manager.Next(incr) }
RECURSIVE DigitLoop(_, _, _, _)
DigitLoop(remainder, incr, mgr, digit) ==
    IF remainder >= incr
    THEN The({DigitLoop(a.remainder, a.incr, a.mgr, a.digit) :
                a \in {LET nx == ManagerNext(mgr, incr)
                       IN  [remainder |-> remainder - incr, incr |-> nx.incr,
                            mgr |-> nx.mgr, digit |-> digit + 1]}})
    ELSE [remainder |-> remainder, incr |-> incr, mgr |-> mgr, digit |-> digit]

\* One call of the closure computeRootDigits returns, on the generator state g.
\* The result is g with the digit returned in g.last (-1 at the end of the digits).
RootDigitsCall(g) ==
    LET base == Base(g.mgr)
        grp  == groups(g, base)
    IN  IF grp.nil /\ g.remainder = 0
        THEN [g EXCEPT !.last = -1]
        ELSE LET rem0 == g.remainder * base + (IF grp.nil THEN 0 ELSE grp.group)
             IN  The({LET nd == ManagerNextDigit(lp.mgr, lp.incr)
                      IN  [g EXCEPT !.num = grp.num,
                                    !.remainder = lp.remainder,
                                    !.incr = nd.incr,
                                    !.mgr = nd.mgr,
                                    !.last = lp.digit] :
                      lp \in {DigitLoop(rem0, g.incr, g.mgr, 0)}})

\* nrootGenerator.Generate: the groups and exp of num/denom and a fresh closure
\* (incr = 1, remainder = 0).
Generate(num, denom, mgr) ==
    LET s == computeGroupsFromRational(num, denom, Base(mgr))
    IN  [num |-> s.num, denom |-> s.denom, exp |-> s.exp,
         mgr |-> mgr, incr |-> 1, remainder |-> 0, last |-> 0]

(***************************************************************************)
(* Integer width.  The code's int is 64 bits wide and kMaxChunks is        *)
(* math.MaxInt / 100, about 9.2e16; the model keeps the chunk size and     *)
(* scales math.MaxInt down, so that the last chunk is within reach.  Like  *)
(* math.MaxInt, MaxInt is not a multiple of the chunk size.                *)
(***************************************************************************)
MaxInt == 207

kMemoizerChunkSize == 100

kMaxChunks == MaxInt \div kMemoizerChunkSize

\* The most memoizers a Context creates, and the most calls of Context.Close.
MaxMemo == 2
MaxCloseCalls == 2

MemoIds == 1..MaxMemo

Readers == {"r1", "r2"}

Closer == "closer"

Threads == Readers \cup {Closer}

digitOutOfRange(d) == d < 0 \/ d > 9

Min(a, b) == IF a < b THEN a ELSE b

(***************************************************************************)
(* The iter closures a memoizer runs: the one repeatingGenerator.Generate  *)
(* returns (fixedIndex, repeatingIndex over fixed and repeating) and the   *)
(* one nrootGenerator.Generate returns (the root generator above).         *)
(***************************************************************************)
newRepeatingIter(fixed, repeating) ==
    [kind |-> "repeating", fixed |-> fixed, repeating |-> repeating,
     fixedIndex |-> 0, repeatingIndex |-> 0]

RepeatingIterCall(it) ==
    IF it.fixedIndex < Len(it.fixed)
    THEN [x |-> it.fixed[it.fixedIndex + 1], it |-> [it EXCEPT !.fixedIndex = @ + 1]]
    ELSE IF Len(it.repeating) = 0
    THEN [x |-> -1, it |-> it]
    ELSE [x  |-> it.repeating[it.repeatingIndex + 1],
          it |-> [it EXCEPT !.repeatingIndex = (@ + 1) % Len(it.repeating)]]

newNRootIter(num, denom, mgr) == [kind |-> "nroot", g |-> Generate(num, denom, mgr)]

NRootIterCall(it) ==
    LET g2 == RootDigitsCall(it.g)
    IN  [x |-> g2.last, it |-> [it EXCEPT !.g = g2]]

(***************************************************************************)
(* The Generators of the tests.  A testgenerator{first, second, exp}       *)
(* yields first, second, first, first, second, first, first, first,        *)
(* second, ... from a closure over onesLeft and onesCount; a badgenerator  *)
(* returns the closure that yields 1 for ever from its first Generate and  *)
(* the one that yields 0 for ever from every later one.  generated counts  *)
(* the calls of Generate on the object and calls those of the closure.     *)
(***************************************************************************)
testgenerator(first, second, exp) ==
    [type |-> "testgenerator", first |-> first, second |-> second, exp |-> exp,
     generated |-> 0]

badgenerator == [type |-> "badgenerator", notFirst |-> FALSE, generated |-> 0]

testgeneratorGenerate(g) ==
    [digits |-> [kind |-> "testgenerator", first |-> g.first, second |-> g.second,
                 onesLeft |-> 1, onesCount |-> 1, calls |-> 0],
     exp |-> g.exp,
     g |-> [g EXCEPT !.generated = @ + 1]]

badgeneratorGenerate(g) ==
    IF g.notFirst
    THEN [digits |-> [kind |-> "constant", value |-> 0, calls |-> 0], exp |-> 4,
          g |-> [g EXCEPT !.generated = @ + 1]]
    ELSE [digits |-> [kind |-> "constant", value |-> 1, calls |-> 0], exp |-> 4,
          g |-> [g EXCEPT !.notFirst = TRUE, !.generated = @ + 1]]

\* g.Generate()
GeneratorGenerate(g) ==
    IF g.type = "testgenerator" THEN testgeneratorGenerate(g) ELSE badgeneratorGenerate(g)

\* digits() of a testgenerator
testgeneratorDigits(it) ==
    IF it.onesLeft = 0
    THEN [x |-> it.second,
          it |-> [it EXCEPT !.onesCount = @ + 1, !.onesLeft = it.onesCount + 1,
                            !.calls = @ + 1]]
    ELSE [x |-> it.first, it |-> [it EXCEPT !.onesLeft = @ - 1, !.calls = @ + 1]]

\* digits() of a badgenerator
badgeneratorDigits(it) == [x |-> it.value, it |-> [it EXCEPT !.calls = @ + 1]]

\* digits(), the closure a Generator returned
DigitsCall(it) ==
    CASE it.kind = "repeating"     -> RepeatingIterCall(it)
      [] it.kind = "testgenerator" -> testgeneratorDigits(it)
      [] it.kind = "constant"      -> badgeneratorDigits(it)

\* firstAndThen(first, next), over the closure of a Generator
newFirstAndThenIter(first, next) ==
    [kind |-> "firstAndThen", firstTime |-> TRUE, first |-> first, next |-> next]

FirstAndThenCall(it) ==
    IF it.firstTime
    THEN [x |-> it.first, it |-> [it EXCEPT !.firstTime = FALSE]]
    ELSE LET c == DigitsCall(it.next)
         IN  [x |-> c.x, it |-> [it EXCEPT !.next = c.it]]

\* m.iter()
IterCall(it) ==
    CASE it.kind = "repeating"    -> RepeatingIterCall(it)
      [] it.kind = "nroot"        -> NRootIterCall(it)
      [] it.kind = "firstAndThen" -> FirstAndThenCall(it)
      [] it.kind \in {"testgenerator", "constant"} -> DigitsCall(it)

(***************************************************************************)
(* memoizer.  A memoizer is a record: iter, data, maxLength, done (the     *)
(* fields under mu) and the state of its goroutine run(): wpc (where it    *)
(* is), wi (the loop's i), wdata (the local data), wdone (the done that    *)
(* the next setData publishes).  mustGrow has one waiter at most, run()    *)
(* itself, at wpc = "growWait"; the threads waiting on updateAvailable are *)
(* those at pc = "suspended" on the memoizer.  The critical sections of mu *)
(* are the atomic steps.                                                   *)
(***************************************************************************)
NoMemo ==
    [created |-> FALSE, iter |-> [kind |-> "none"], data |-> <<>>, maxLength |-> 0,
     done |-> FALSE, wpc |-> "none", wi |-> 0, wdata |-> <<>>, wdone |-> FALSE]

\* newMemoizeSpec: the memoizer, with run() started.
newMemoizer(iter) ==
    [created |-> TRUE, iter |-> iter, data |-> <<>>, maxLength |-> 0,
     done |-> FALSE, wpc |-> "waitToGrow", wi |-> 0, wdata |-> <<>>, wdone |-> FALSE]

\* int arithmetic: the result wraps into MinInt .. MaxInt.
WrapInt(x) == ((x + MaxInt + 1) % (2 * MaxInt + 2)) - (MaxInt + 1)

TargetLengthUncapped(index) ==
    WrapInt(kMemoizerChunkSize * WrapInt(index \div kMemoizerChunkSize + 1))

\* wait: chunkCount := index/kMemoizerChunkSize + 1, capped at kMaxChunks;
\* then kMemoizerChunkSize * chunkCount, in int arithmetic.
TargetLength(index) ==
    WrapInt(kMemoizerChunkSize *
            Min(WrapInt(index \div kMemoizerChunkSize + 1), kMaxChunks))

SignalMustGrowLost(mm) == mm

\* mustGrow.Signal(): run(), when it waits on mustGrow, is woken.
SignalMustGrow(mm) ==
    [mm EXCEPT !.wpc = IF @ = "growWait" THEN "waitToGrow" ELSE @]

WaitRaiseOnlyBelowMaxChunks(mm, index) ==
    IF ~mm.done /\ mm.maxLength <= index /\ index < kMaxChunks * kMemoizerChunkSize
    THEN SignalMustGrow([mm EXCEPT !.maxLength = TargetLength(index)])
    ELSE mm

\* wait, up to its loop: if !m.done && m.maxLength <= index { m.maxLength = ...; Signal }
WaitRaise(mm, index) ==
    IF ~mm.done /\ mm.maxLength <= index
    THEN SignalMustGrow([mm EXCEPT !.maxLength = TargetLength(index)])
    ELSE mm

MustSuspendOffByOne(mm, index) == ~mm.done /\ Len(mm.data) < index

\* wait's loop condition: for !m.done && len(m.data) <= index { updateAvailable.Wait() }
MustSuspend(mm, index) == ~mm.done /\ Len(mm.data) <= index

ChunkRoundDropsDataAtEnd(it, data) ==
    LET c == IterCall(it)
    IN  IF digitOutOfRange(c.x)
        THEN [it |-> c.it, data |-> <<>>, ended |-> TRUE]
        ELSE [it |-> c.it, data |-> Append(data, c.x), ended |-> FALSE]

\* One round of run()'s inner loop: x := m.iter(); if digitOutOfRange(x) { ...
\* return }; data = append(data, int8(x)).  ended says that the round returned.
ChunkRound(it, data) ==
    The({IF digitOutOfRange(c.x)
         THEN [it |-> c.it, data |-> data, ended |-> TRUE]
         ELSE [it |-> c.it, data |-> Append(data, c.x), ended |-> FALSE] :
         c \in {IterCall(it)}})

\* n rounds of the inner loop, or the rounds up to the one that returned.  The
\* rounds are run as two halves, one after the other, which keeps the depth of
\* the evaluation logarithmic in n; a is the outcome of the first half.
RECURSIVE ChunkRounds(_, _, _)
ChunkRounds(it, data, n) ==
    IF n = 0 THEN [it |-> it, data |-> data, ended |-> FALSE]
    ELSE IF n = 1 THEN ChunkRound(it, data)
    ELSE The({IF a.ended THEN a ELSE ChunkRounds(a.it, a.data, n - n \div 2) :
              a \in {ChunkRounds(it, data, n \div 2)}})

\* run()'s inner loop: for j := 0; j < kMemoizerChunkSize; j++ { ... }
ChunkLoop(it, data) == ChunkRounds(it, data, kMemoizerChunkSize)

(***************************************************************************)
(* A thread in At, FirstN or Scan.  pc: idle, suspended (in                *)
(* updateAvailable.Wait), woken (by a Broadcast, before it has mu again),  *)
(* scanWait (Scan is about to call wait again), returned.  limit is        *)
(* FirstN's n or Scan's limit; stop is the number of the yield call that   *)
(* returns false (0: none does); from is Scan's first index; out is what   *)
(* FirstN returned or what Scan yielded; ret is what At returned.          *)
(***************************************************************************)
IdleThread ==
    [pc |-> "idle", op |-> "none", m |-> 0, index |-> 0, limit |-> 0, stop |-> 0,
     from |-> 0, out |-> <<>>, ret |-> 0]

NewCall(op, m, index, limit, stop) ==
    [pc |-> "idle", op |-> op, m |-> m, index |-> index, limit |-> limit, stop |-> stop,
     from |-> index, out |-> <<>>, ret |-> 0]

\* The index the operation passes to wait.
WaitIndex(tr) == IF tr.op = "FirstN" THEN tr.limit - 1 ELSE tr.index

\* One round of Scan's loop on the data wait returned: the loop ends
\* (returned), yield returns false (returned), wait is to be called again
\* (scanWait), or the loop goes on (scan).
ScanRound(tr, data, ok) ==
    IF ok /\ tr.index < tr.limit
    THEN LET out2 == Append(tr.out, data[tr.index + 1])
         IN  IF Len(out2) = tr.stop
             THEN [tr EXCEPT !.out = out2, !.pc = "returned"]
             ELSE [tr EXCEPT !.out = out2, !.index = @ + 1,
                             !.pc = IF tr.index + 1 = Len(data) THEN "scanWait" ELSE "scan"]
    ELSE [tr EXCEPT !.pc = "returned"]

\* Up to n rounds of Scan's loop, as two halves (see ChunkRounds).
RECURSIVE ScanRounds(_, _, _, _)
ScanRounds(tr, data, ok, n) ==
    IF n = 0 \/ tr.pc # "scan" THEN tr
    ELSE IF n = 1 THEN ScanRound(tr, data, ok)
    ELSE The({ScanRounds(a, data, ok, n - n \div 2) :
              a \in {ScanRounds(tr, data, ok, n \div 2)}})

\* Scan's loop on the data wait returned, up to its next call of wait or its
\* return: at most len(data) + 1 rounds.
ScanLoop(tr, data, ok) == ScanRounds([tr EXCEPT !.pc = "scan"], data, ok, Len(data) + 1)

\* memoizer.At, after wait
AtReturn(tr, data, ok) ==
    [tr EXCEPT !.pc = "returned", !.ret = IF ok THEN data[tr.index + 1] ELSE -1]

\* memoizer.FirstN, after wait
FirstNReturn(tr, data) ==
    [tr EXCEPT !.pc = "returned",
               !.out = IF Len(data) > tr.limit THEN SubSeq(data, 1, tr.limit) ELSE data]

\* The thread once wait has returned (data, ok) to its operation.
Returned(tr, data, ok) ==
    CASE tr.op = "At"     -> AtReturn(tr, data, ok)
      [] tr.op = "FirstN" -> FirstNReturn(tr, data)
      [] tr.op = "Scan"   -> ScanLoop(tr, data, ok)

WaitLoopIgnoresDone(tr, mm) ==
    IF Len(mm.data) <= WaitIndex(tr)
    THEN [tr EXCEPT !.pc = "suspended"]
    ELSE Returned(tr, mm.data, Len(mm.data) > WaitIndex(tr))

\* wait's loop, entered or entered again after a wake-up.
WaitLoop(tr, mm) ==
    IF MustSuspend(mm, WaitIndex(tr))
    THEN [tr EXCEPT !.pc = "suspended"]
    ELSE Returned(tr, mm.data, Len(mm.data) > WaitIndex(tr))

\* Thread t calls wait for the operation tr: wait's critical section up to the
\* first Wait or the return.
Enter(t, tr) ==
    LET mm == WaitRaise(memo[tr.m], WaitIndex(tr))
    IN  /\ memo' = [memo EXCEPT ![tr.m] = mm]
        /\ th' = [th EXCEPT ![t] = WaitLoop(tr, mm)]

(***************************************************************************)
(* The readers' steps.                                                     *)
(***************************************************************************)
CanCall(t) == th[t].pc \in {"idle", "returned"}

\* m.At(index), up to its first wait
memoizerAt(r, m, index) ==
    /\ CanCall(r)
    /\ memo[m].created
    /\ IF index < 0
       THEN /\ th' = [th EXCEPT ![r] = [NewCall("At", m, index, 0, 0) EXCEPT !.pc = "returned", !.ret = -1]]
            /\ UNCHANGED memo
       ELSE Enter(r, NewCall("At", m, index, 0, 0))

\* m.FirstN(n), up to its first wait
memoizerFirstN(r, m, n) ==
    /\ CanCall(r)
    /\ memo[m].created
    /\ IF n <= 0
       THEN /\ th' = [th EXCEPT ![r] = [NewCall("FirstN", m, 0, n, 0) EXCEPT !.pc = "returned"]]
            /\ UNCHANGED memo
       ELSE Enter(r, NewCall("FirstN", m, 0, n, 0))

\* m.Scan(index, limit, yield) with index >= 0, up to its first wait
memoizerScan(r, m, index, limit, stop) ==
    /\ CanCall(r)
    /\ memo[m].created
    /\ index >= 0
    /\ Enter(r, NewCall("Scan", m, index, limit, stop))

\* m.At(index)
ReaderAt(r, m, index) ==
    /\ memoizerAt(r, m, index)
    /\ UNCHANGED <<fmt, gen, ctx, cl, fac, vw, usr>>

\* m.FirstN(n)
ReaderFirstN(r, m, n) ==
    /\ memoizerFirstN(r, m, n)
    /\ UNCHANGED <<fmt, gen, ctx, cl, fac, vw, usr>>

\* m.Scan(index, limit, yield) with index >= 0
ReaderScan(r, m, index, limit, stop) ==
    /\ memoizerScan(r, m, index, limit, stop)
    /\ UNCHANGED <<fmt, gen, ctx, cl, fac, vw, usr>>

\* Scan calls wait again, at index = len(data)
ScanWaitAgain(r) ==
    /\ th[r].pc = "scanWait"
    /\ Enter(r, th[r])
    /\ UNCHANGED <<fmt, gen, ctx, cl, fac, vw, usr>>

\* A woken thread has mu again and goes round wait's loop.
Resume(t) ==
    /\ th[t].pc = "woken"
    /\ th' = [th EXCEPT ![t] = WaitLoop(th[t], memo[th[t].m])]
    /\ UNCHANGED <<fmt, gen, ctx, memo, cl, fac, vw, usr>>

(***************************************************************************)
(* run(), the memoizer's goroutine.                                        *)
(***************************************************************************)
WorkerWaitToGrowNeverWaits(m) ==
    /\ memo[m].wpc = "waitToGrow"
    /\ memo' = [memo EXCEPT ![m].wpc = "produce"]
    /\ UNCHANGED <<fmt, gen, ctx, th, cl, fac, vw, usr>>

\* waitToGrow: for len(m.data) >= m.maxLength { m.mustGrow.Wait() }
WorkerWaitToGrow(m) ==
    /\ memo[m].wpc = "waitToGrow"
    /\ memo' = [memo EXCEPT ![m].wpc =
                   IF Len(memo[m].data) >= memo[m].maxLength THEN "growWait" ELSE "produce"]
    /\ UNCHANGED <<fmt, gen, ctx, th, cl, fac, vw, usr>>

WorkerProduceGoesOnAfterEnd(m) ==
    /\ memo[m].wpc = "produce"
    /\ \E c \in {ChunkLoop(memo[m].iter, memo[m].wdata)} :
           memo' = [memo EXCEPT ![m].iter = c.it,
                                ![m].wdata = c.data,
                                ![m].wdone = FALSE,
                                ![m].wpc = "checkClosed"]
    /\ UNCHANGED <<fmt, gen, ctx, th, cl, fac, vw, usr>>

\* The inner loop: a chunk of digits, or the digits up to the end of the mantissa.
WorkerProduce(m) ==
    /\ memo[m].wpc = "produce"
    /\ \E c \in {ChunkLoop(memo[m].iter, memo[m].wdata)} :
           memo' = [memo EXCEPT ![m].iter = c.it,
                                ![m].wdata = c.data,
                                ![m].wdone = c.ended,
                                ![m].wpc = IF c.ended THEN "setData" ELSE "checkClosed"]
    /\ UNCHANGED <<fmt, gen, ctx, th, cl, fac, vw, usr>>

WorkerCheckClosedIgnoresFlag(m) ==
    /\ memo[m].wpc = "checkClosed"
    /\ memo' = [memo EXCEPT ![m].wdone = FALSE, ![m].wpc = "setData"]
    /\ UNCHANGED <<fmt, gen, ctx, th, cl, fac, vw, usr>>

\* if m.ctxt.Closed() { m.setData(data, true); return }; m.setData(data, false)
WorkerCheckClosed(m) ==
    /\ memo[m].wpc = "checkClosed"
    /\ memo' = [memo EXCEPT ![m].wdone = ctx.closed, ![m].wpc = "setData"]
    /\ UNCHANGED <<fmt, gen, ctx, th, cl, fac, vw, usr>>

BroadcastWakesOne(m) ==
    LET S == {t \in Threads : th[t].pc = "suspended" /\ th[t].m = m}
    IN  IF S = {} THEN th
        ELSE [th EXCEPT ![CHOOSE t \in S : TRUE].pc = "woken"]

\* updateAvailable.Broadcast(): every thread waiting on memoizer m is woken.
Broadcast(m) ==
    [t \in Threads |->
        IF th[t].pc = "suspended" /\ th[t].m = m THEN [th[t] EXCEPT !.pc = "woken"] ELSE th[t]]

PublishedLastChunkOnly(mm) ==
    [data |-> SubSeq(mm.wdata, kMemoizerChunkSize * mm.wi + 1, Len(mm.wdata)),
     done |-> mm.wdone]

\* What setData publishes: the local data and done.
Published(mm) == [data |-> mm.wdata, done |-> mm.wdone]

\* setData(data, done), and where run() goes from there: it returns after
\* done = true, goes round the outer loop, or leaves the loop after
\* kMaxChunks rounds and calls setData(data, true).
WorkerSetData(m) ==
    /\ memo[m].wpc = "setData"
    /\ LET mm == memo[m]
           p  == Published(mm)
       IN  memo' = [memo EXCEPT ![m] =
                [mm EXCEPT !.data = p.data,
                           !.done = p.done,
                           !.wi = IF mm.wdone THEN @ ELSE @ + 1,
                           !.wdone = mm.wdone \/ mm.wi + 1 >= kMaxChunks,
                           !.wpc = IF mm.wdone THEN "end"
                                   ELSE IF mm.wi + 1 < kMaxChunks THEN "waitToGrow"
                                   ELSE "setData"]]
    /\ th' = Broadcast(m)
    /\ UNCHANGED <<fmt, gen, ctx, cl, fac, vw, usr>>

WorkerEndKeepsCount(m) ==
    /\ memo[m].wpc = "end"
    /\ memo' = [memo EXCEPT ![m].wpc = "exited"]
    /\ UNCHANGED <<fmt, gen, ctx, th, cl, fac, vw, usr>>

\* defer m.ctxt.End()
WorkerEnd(m) ==
    /\ memo[m].wpc = "end"
    /\ memo' = [memo EXCEPT ![m].wpc = "exited"]
    /\ ctx' = [ctx EXCEPT !.active = @ - 1]
    /\ UNCHANGED <<fmt, gen, th, cl, fac, vw, usr>>

(***************************************************************************)
(* Context.Close, by the closer thread: mu.Lock and ctxt.Close(), then     *)
(* FirstN(math.MaxInt) on every spec, then specs = nil and mu.Unlock.      *)
(***************************************************************************)
CloseBegin ==
    /\ cl.pc \in {"idle", "returned"}
    /\ cl.calls < MaxCloseCalls
    /\ ctx.mu = "free"
    /\ ctx' = [ctx EXCEPT !.mu = "held", !.closed = TRUE]
    /\ cl' = [cl EXCEPT !.pc = "drain", !.k = 1, !.calls = @ + 1]
    /\ UNCHANGED <<fmt, gen, memo, th, fac, vw, usr>>

CloseDrainSkips ==
    /\ cl.pc = "drain"
    /\ CanCall(Closer)
    /\ cl.k <= Len(ctx.specs)
    /\ cl' = [cl EXCEPT !.k = @ + 1]
    /\ UNCHANGED <<fmt, gen, ctx, memo, th, fac, vw, usr>>

\* for _, spec := range c.specs { spec.FirstN(math.MaxInt) }: one call
CloseDrain ==
    /\ cl.pc = "drain"
    /\ CanCall(Closer)
    /\ cl.k <= Len(ctx.specs)
    /\ Enter(Closer, NewCall("FirstN", ctx.specs[cl.k], 0, MaxInt, 0))
    /\ cl' = [cl EXCEPT !.k = @ + 1]
    /\ UNCHANGED <<fmt, gen, ctx, fac, vw, usr>>

CloseEndKeepsSpecs ==
    /\ cl.pc = "drain"
    /\ CanCall(Closer)
    /\ cl.k > Len(ctx.specs)
    /\ ctx' = [ctx EXCEPT !.mu = "free"]
    /\ cl' = [cl EXCEPT !.pc = "returned"]
    /\ th' = [th EXCEPT ![Closer] = IdleThread]
    /\ UNCHANGED <<fmt, gen, memo, fac, vw, usr>>

CloseEnd ==
    /\ cl.pc = "drain"
    /\ CanCall(Closer)
    /\ cl.k > Len(ctx.specs)
    /\ ctx' = [ctx EXCEPT !.specs = <<>>, !.mu = "free"]
    /\ cl' = [cl EXCEPT !.pc = "returned"]
    /\ th' = [th EXCEPT ![Closer] = IdleThread]
    /\ UNCHANGED <<fmt, gen, memo, fac, vw, usr>>

(***************************************************************************)
(* The factories of Context.  A call is a record: fn and its arguments.    *)
(* FactoryStart is the call up to c.newMemoizeSpec: it returns early (zero,*)
(* an error, a panic of checkNumDenom) or comes to newMemoizeSpec with the *)
(* iter closure of the Number.                                             *)
(***************************************************************************)
validDigits(x) == \A k \in 1..Len(x) : ~digitOutOfRange(x[k])

Early(out) == [early |-> TRUE, out |-> out]

WithIter(it) == [early |-> FALSE, iter |-> it]

nRootFracZeroBeforeCheck(num, denom, mgr) ==
    IF num = 0 THEN Early("zero")
    ELSE IF denom <= 0 THEN Early("panic: Denominator must be positive")
    ELSE IF num < 0 THEN Early("panic: Numerator must be non-negative")
    ELSE WithIter(newNRootIter(num, denom, mgr))

\* Context.nRootFrac, with checkNumDenom
nRootFrac(num, denom, mgr) ==
    IF denom <= 0 THEN Early("panic: Denominator must be positive")
    ELSE IF num < 0 THEN Early("panic: Numerator must be non-negative")
    ELSE IF num = 0 THEN Early("zero")
    ELSE WithIter(newNRootIter(num, denom, mgr))

\* Context.NewNumberForTesting
NewNumberForTesting(fixed, repeating) ==
    IF Len(fixed) = 0 /\ Len(repeating) = 0 THEN Early("zero")
    ELSE IF ~validDigits(fixed) \/ ~validDigits(repeating) THEN Early("error")
    ELSE IF RepeatingIterCall(newRepeatingIter(fixed, repeating)).x = 0 THEN Early("error")
    ELSE WithIter(newRepeatingIter(fixed, repeating))

\* Context.NewNumber, on a Generator whose closure is that of a repeatingGenerator
NewNumber(fixed, repeating) ==
    LET c == RepeatingIterCall(newRepeatingIter(fixed, repeating))
    IN  IF c.x = 0 \/ digitOutOfRange(c.x) THEN Early("zero")
        ELSE WithIter(newFirstAndThenIter(c.x, c.it))

ContextNewNumberGeneratesTwice(g) ==
    LET made  == GeneratorGenerate(g)
        c     == DigitsCall(made.digits)
        again == GeneratorGenerate(made.g)
    IN  IF c.x = 0 \/ digitOutOfRange(c.x)
        THEN [early |-> TRUE, out |-> "zero", g |-> made.g]
        ELSE [early |-> FALSE, iter |-> again.digits, exp |-> again.exp, g |-> again.g]

\* Context.NewNumber(g), up to c.newNumber: the outcome, the exponent and the
\* Generator as the call leaves it.
ContextNewNumber(g) ==
    LET made == GeneratorGenerate(g)
        c    == DigitsCall(made.digits)
    IN  IF c.x = 0 \/ digitOutOfRange(c.x)
        THEN [early |-> TRUE, out |-> "zero", g |-> made.g]
        ELSE [early |-> FALSE, iter |-> newFirstAndThenIter(c.x, c.it),
              exp |-> made.exp, g |-> made.g]

FactoryStart(call) ==
    CASE call.fn = "Sqrt"       -> nRootFrac(call.num, call.denom, newSqrtManager)
      [] call.fn = "CubeRoot"   -> nRootFrac(call.num, call.denom, newCubeRootManager)
      [] call.fn = "NewNumberForTesting" -> NewNumberForTesting(call.fixed, call.repeating)
      [] call.fn = "NewFiniteNumber"     -> NewNumberForTesting(call.fixed, <<>>)
      [] call.fn = "NewNumber"  -> NewNumber(call.fixed, call.repeating)

\* A call of Close has returned: closed is set and mu is free again.
AfterClose == ctx.closed /\ ctx.mu = "free"

\* The memoizers created so far.
Created == {m \in MemoIds : memo[m].created}

ContextNewMemoizeSpecNoClosedCheck(call, it) ==
    /\ ctx.mu = "free"
    /\ Cardinality(Created) < MaxMemo
    /\ LET id == Cardinality(Created) + 1
       IN  /\ memo' = [memo EXCEPT ![id] = newMemoizer(it)]
           /\ ctx' = [ctx EXCEPT !.active = @ + 1, !.specs = Append(@, id)]
    /\ fac' = [call |-> call, out |-> "number", afterClose |-> AfterClose]

\* Context.newMemoizeSpec on an explicit Context: under mu, panic when closed,
\* else newMemoizeSpec(digits, &c.ctxt) (ctxt.Start(), go run()) and
\* c.specs = append(c.specs, result).
ContextNewMemoizeSpec(call, it) ==
    /\ ctx.mu = "free"
    /\ IF ctx.closed
       THEN /\ fac' = [call |-> call, out |-> "panic: Context closed", afterClose |-> TRUE]
            /\ UNCHANGED <<ctx, memo>>
       ELSE /\ Cardinality(Created) < MaxMemo
            /\ LET id == Cardinality(Created) + 1
               IN  /\ memo' = [memo EXCEPT ![id] = newMemoizer(it)]
                   /\ ctx' = [ctx EXCEPT !.active = @ + 1, !.specs = Append(@, id)]
            /\ fac' = [call |-> call, out |-> "number", afterClose |-> FALSE]

\* One factory call, from the call to its return or panic.
Factory(call) ==
    /\ LET s == FactoryStart(call)
       IN  IF s.early
           THEN /\ fac' = [call |-> call, out |-> s.out, afterClose |-> AfterClose]
                /\ UNCHANGED <<ctx, memo>>
           ELSE ContextNewMemoizeSpec(call, s.iter)
    /\ UNCHANGED <<fmt, gen, th, cl, vw, usr>>

\* (*Context)(nil).Close(): if c == nil { return }.  The nil Context is no
\* closed Context.
CloseNil ==
    /\ fac' = [call |-> [fn |-> "nil.Close"], out |-> "returned", afterClose |-> FALSE]
    /\ UNCHANGED <<fmt, gen, ctx, memo, th, cl, vw, usr>>

(***************************************************************************)
(* The caller's memory.  A *big.Int and a []int are references: the caller *)
(* and the package may hold the same cell.  The cells are named after the  *)
(* variables of the source that hold them first; the caller's are          *)
(* "radican.num", "radican.denom", "fixed" and "repeating", the package's  *)
(* is "one".  usr.mem is the content of the cells the caller can reach;    *)
(* the content of a cell that a closure holds is the closure's field of    *)
(* it (g.num and g.denom of the root closure, fixed and repeating of the   *)
(* repeating closure), whoever else holds the cell.                        *)
(***************************************************************************)
BigIntSetShares(z, x) == x

\* z.Set(x), new(big.Int).Set(x): z is a cell of its own with the value of x.
BigIntSet(z, x) == z

AppendToNilShares(z, x) == x

\* z = append([]int(nil), x...): z is a slice of its own with the elements of x.
AppendToNil(z, x) == z

\* The cells of the closure the factory call comes to: newNRootGenerator
\* copies num and denom into the generator, computeGroupsFromRational copies
\* the generator's into its own num and denom; newRepeatingGenerator copies
\* fixed and repeating into the generator.
WithCells(call, it) ==
    IF it.kind = "nroot"
    THEN [kind |-> "nroot", g |-> it.g,
          numCell   |-> BigIntSet("num", BigIntSet("g.num", "radican.num")),
          denomCell |-> BigIntSet("denom", BigIntSet("g.denom",
                            IF call.fn \in {"SqrtBigInt", "CubeRootBigInt"}
                            THEN "one" ELSE "radican.denom"))]
    ELSE [kind |-> "repeating", fixed |-> it.fixed, repeating |-> it.repeating,
          fixedIndex |-> it.fixedIndex, repeatingIndex |-> it.repeatingIndex,
          fixedCell     |-> AppendToNil("g.fixed", "fixed"),
          repeatingCell |-> AppendToNil("g.repeating", "repeating")]

\* The content of cell c in the closure it, if the closure holds the cell.
Holds(it, c) ==
    CASE it.kind = "nroot"     -> c \in {it.numCell, it.denomCell}
      [] it.kind = "repeating" -> c \in {it.fixedCell, it.repeatingCell}
      [] OTHER                 -> FALSE

Held(it, c) ==
    CASE it.kind = "nroot"     -> IF c = it.numCell THEN it.g.num ELSE it.g.denom
      [] it.kind = "repeating" -> IF c = it.fixedCell THEN it.fixed ELSE it.repeating

\* The closure after a write of v to cell c.
Written(it, c, v) ==
    CASE it.kind = "nroot" ->
             [it EXCEPT !.g = [@ EXCEPT !.num   = IF c = it.numCell THEN v ELSE @,
                                        !.denom = IF c = it.denomCell THEN v ELSE @]]
      [] it.kind = "repeating" ->
             [it EXCEPT !.fixed     = IF c = it.fixedCell THEN v ELSE @,
                        !.repeating = IF c = it.repeatingCell THEN v ELSE @]
      [] OTHER -> it

\* What the caller reads in cell c.
Content(c) ==
    IF \E m \in MemoIds : Holds(memo[m].iter, c)
    THEN Held(memo[CHOOSE m \in MemoIds : Holds(memo[m].iter, c)].iter, c)
    ELSE usr.mem[c]

\* The cells of a call's arguments, as the caller has filled them.
Arguments(call) ==
    IF call.fn = "NewNumberForTesting"
    THEN [c \in {"fixed", "repeating"} |-> IF c = "fixed" THEN call.fixed ELSE call.repeating]
    ELSE [c \in {"radican.num", "radican.denom", "one"} |->
              IF c = "radican.num" THEN call.num
              ELSE IF c = "radican.denom" THEN call.denom ELSE 1]

\* The factory call up to c.newMemoizeSpec: SqrtBigInt and CubeRootBigInt
\* pass radican and one to nRootFrac, SqrtBigRat and CubeRootBigRat pass
\* radican.Num() and radican.Denom().
CallerStart(call) ==
    CASE call.fn \in {"SqrtBigInt", "SqrtBigRat"} ->
             nRootFrac(call.num, call.denom, newSqrtManager)
      [] call.fn \in {"CubeRootBigInt", "CubeRootBigRat"} ->
             nRootFrac(call.num, call.denom, newCubeRootManager)
      [] call.fn = "NewNumberForTesting" ->
             NewNumberForTesting(call.fixed, call.repeating)

\* What the factory returns for the closure it: c.newFiniteNumber(gen.Generate())
\* when NewNumberForTesting has no repeating digits, else c.newNumber(...),
\* with the exponent Generate returned.
NumberOf(call, it, m) ==
    [kind |-> IF call.fn = "NewNumberForTesting" /\ call.repeating = <<>>
              THEN "FiniteNumber" ELSE "opqNumber",
     exponent |-> IF call.fn = "NewNumberForTesting" THEN call.exp ELSE it.g.exp,
     m |-> m]

\* return zeroNumber, nil (or zeroNumber); return nil, errors.New(...)
NoNumber(out) ==
    [kind |-> IF out = "zero" THEN "zeroNumber" ELSE "nil", exponent |-> 0, m |-> 0]

\* The caller fills its arguments and calls a factory, once.
CallerFactory(call) ==
    /\ ~usr.on
    /\ \E s \in {CallerStart(call)} :
          IF s.early
          THEN /\ fac' = [call |-> call, out |-> s.out, afterClose |-> AfterClose]
               /\ usr' = [on |-> TRUE, call |-> call, mem |-> Arguments(call),
                          wrote |-> Arguments(call), number |-> NoNumber(s.out), sets |-> 0, unread |-> FALSE]
               /\ UNCHANGED <<ctx, memo>>
          ELSE /\ ContextNewMemoizeSpec(call, WithCells(call, s.iter))
               /\ usr' = [on |-> TRUE, call |-> call, mem |-> Arguments(call),
                          wrote |-> Arguments(call),
                          number |-> NumberOf(call, s.iter, Cardinality(Created) + 1),
                          sets |-> 0, unread |-> FALSE]
    /\ UNCHANGED <<fmt, gen, th, cl, vw>>

\* The caller calls c.NewNumber(g), once, on its Generator g.
GeneratorFactory(g) ==
    /\ ~usr.on
    /\ \E call \in {[fn |-> "NewNumber", g |-> g]}, s \in {ContextNewNumber(g)} :
          IF s.early
          THEN /\ fac' = [call |-> call, out |-> s.out, afterClose |-> AfterClose]
               /\ usr' = [on |-> TRUE, call |-> call, g |-> s.g, number |-> NoNumber(s.out)]
               /\ UNCHANGED <<ctx, memo>>
          ELSE /\ ContextNewMemoizeSpec(call, s.iter)
               /\ usr' = [on |-> TRUE, call |-> call, g |-> s.g,
                          number |-> [kind |-> "opqNumber", exponent |-> s.exp,
                                      m |-> Cardinality(Created) + 1]]
    /\ UNCHANGED <<fmt, gen, th, cl, vw>>

\* radican.SetInt64(v), fixed[k] = d: the caller writes v to its cell c, once
\* the factory has returned; a closure that holds the cell has the new content.
\* unread: a write came before run() had computed any digit.
CallerSet(c, v, most) ==
    /\ usr.on
    /\ usr.sets < most
    /\ c \in DOMAIN usr.mem \ {"one"}
    /\ v # usr.wrote[c]
    /\ usr' = [usr EXCEPT !.mem[c] = v, !.wrote[c] = v, !.sets = @ + 1,
                           !.unread = @ \/ \A m \in MemoIds : memo[m].wdata = <<>>]
    /\ memo' = [m \in MemoIds |-> [memo[m] EXCEPT !.iter = Written(@, c, v)]]
    /\ UNCHANGED <<fmt, gen, ctx, th, cl, fac, vw>>

(***************************************************************************)
(* Numbers and Sequences.  A Number or Sequence is a pointer to an object: *)
(* a *FiniteNumber, a *mantissaWithStart, or an *opqNumber or *opqSequence *)
(* around one of these.  The objects a reader builds are the cells of its  *)
(* arena, a sequence, and a pointer is the index of a cell, so that two    *)
(* pointers are equal exactly when they point to the same object.  A       *)
(* mantissa is the struct {spec}; spec is nil, a memoizer or a pointer to  *)
(* a limitSpec, itself a cell with a delegate and a limit.                 *)
(***************************************************************************)
NilSpec == [k |-> "nil", p |-> 0]

memoizerRef(m) == [k |-> "memoizer", p |-> m]

limitSpecRef(a) == [k |-> "limitSpec", p |-> a]

Object(type, mantissa, start, exponent, inner, delegate, limit) ==
    [type |-> type, mantissa |-> mantissa, start |-> start, exponent |-> exponent,
     inner |-> inner, delegate |-> delegate, limit |-> limit]

\* &FiniteNumber{mantissa: mantissa, exponent: exponent}
NewFiniteNumberObject(mantissa, exponent) ==
    Object("FiniteNumber", mantissa, 0, exponent, 0, NilSpec, 0)

\* &mantissaWithStart{mantissa: mantissa, start: start}
NewMantissaWithStart(mantissa, start) ==
    Object("mantissaWithStart", mantissa, start, 0, 0, NilSpec, 0)

\* var zeroNumber = &FiniteNumber{}: the first cell of every arena
zeroNumber == 1

ZeroArena == <<NewFiniteNumberObject(NilSpec, 0)>>

\* A new object: the arena with the object, and the pointer to it.
Alloc(h, obj) == [h |-> Append(h, obj), p |-> Len(h) + 1]

\* The same object: the arena as it was.
Same(h, p) == [h |-> h, p |-> p]

withLimitAlwaysNew(h, spec, limit) ==
    IF limit <= 0 \/ spec = NilSpec
    THEN [h |-> h, spec |-> NilSpec]
    ELSE LET delegate == IF spec.k = "limitSpec" THEN h[spec.p].delegate ELSE spec
             a == Alloc(h, Object("limitSpec", NilSpec, 0, 0, 0, delegate,
                                  IF spec.k = "limitSpec" THEN Min(limit, h[spec.p].limit)
                                  ELSE limit))
         IN  [h |-> a.h, spec |-> limitSpecRef(a.p)]

\* withLimit(spec, limit): nil, the spec itself, or a new limitSpec on the
\* memoizer.
withLimit(h, spec, limit) ==
    IF limit <= 0 \/ spec = NilSpec
    THEN [h |-> h, spec |-> NilSpec]
    ELSE IF spec.k = "limitSpec" /\ limit >= h[spec.p].limit
    THEN [h |-> h, spec |-> spec]
    ELSE LET delegate == IF spec.k = "limitSpec" THEN h[spec.p].delegate ELSE spec
             a == Alloc(h, Object("limitSpec", NilSpec, 0, 0, 0, delegate, limit))
         IN  [h |-> a.h, spec |-> limitSpecRef(a.p)]

\* (*FiniteNumber).FiniteWithStart
FiniteNumberFiniteWithStart(h, n, start) ==
    IF start <= 0 THEN Same(h, n)
    ELSE Alloc(h, NewMantissaWithStart(h[n].mantissa, start))

FiniteNumberWithMantissaDropsExponent(h, n, newMantissa) ==
    IF newMantissa = h[n].mantissa THEN Same(h, n)
    ELSE IF newMantissa = NilSpec THEN Same(h, zeroNumber)
    ELSE Alloc(h, NewFiniteNumberObject(newMantissa, 0))

\* (*FiniteNumber).withMantissa
FiniteNumberWithMantissa(h, n, newMantissa) ==
    IF newMantissa = h[n].mantissa THEN Same(h, n)
    ELSE IF newMantissa = NilSpec THEN Same(h, zeroNumber)
    ELSE Alloc(h, NewFiniteNumberObject(newMantissa, h[n].exponent))

\* (*FiniteNumber).WithEnd: n.withMantissa(n.mantissa.WithLimit(end))
FiniteNumberWithEnd(h, n, end) ==
    LET l == withLimit(h, h[n].mantissa, end)
    IN  FiniteNumberWithMantissa(l.h, n, l.spec)

mantissaWithStartFiniteWithStartTakesLast(h, m, start) ==
    IF start = h[m].start THEN Same(h, m)
    ELSE Alloc(h, NewMantissaWithStart(h[m].mantissa, start))

\* (*mantissaWithStart).FiniteWithStart
mantissaWithStartFiniteWithStart(h, m, start) ==
    IF start <= h[m].start THEN Same(h, m)
    ELSE Alloc(h, NewMantissaWithStart(h[m].mantissa, start))

\* (*mantissaWithStart).withMantissa
mantissaWithStartWithMantissa(h, m, mantissa) ==
    IF mantissa = h[m].mantissa THEN Same(h, m)
    ELSE Alloc(h, NewMantissaWithStart(mantissa, h[m].start))

\* (*mantissaWithStart).WithEnd: m.withMantissa(m.mantissa.WithLimit(end))
mantissaWithStartWithEnd(h, m, end) ==
    LET l == withLimit(h, h[m].mantissa, end)
    IN  mantissaWithStartWithMantissa(l.h, m, l.spec)

IsOpaque(h, p) == h[p].type \in {"opqNumber", "opqSequence"}

\* The object whose methods an opqNumber or an opqSequence promotes.
Embedded(h, p) == IF IsOpaque(h, p) THEN h[p].inner ELSE p

\* WithStart on what an opqNumber or an opqSequence embeds
EmbeddedWithStart(h, p, start) ==
    IF h[p].type = "FiniteNumber"
    THEN FiniteNumberFiniteWithStart(h, p, start)
    ELSE mantissaWithStartFiniteWithStart(h, p, start)

\* opaqueSequence(s)
opaqueSequence(h, s) ==
    IF h[s].type = "opqSequence" THEN Same(h, s)
    ELSE Alloc(h, Object("opqSequence", NilSpec, 0, 0, s, NilSpec, 0))

\* opaqueNumber(n)
opaqueNumber(h, n) ==
    IF h[n].type = "opqNumber" THEN Same(h, n)
    ELSE Alloc(h, Object("opqNumber", NilSpec, 0, 0, n, NilSpec, 0))

opqWithStartReturnsEmbedded(h, p, start) ==
    LET result == EmbeddedWithStart(h, h[p].inner, start)
    IN  IF result.p = h[p].inner THEN Same(result.h, h[p].inner)
        ELSE opaqueSequence(result.h, result.p)

\* (*opqNumber).WithStart and (*opqSequence).WithStart
opqWithStart(h, p, start) ==
    LET result == EmbeddedWithStart(h, h[p].inner, start)
    IN  IF result.p = h[p].inner THEN Same(result.h, p)
        ELSE opaqueSequence(result.h, result.p)

\* p.WithStart(start), by the type of the object
WithStart(h, p, start) ==
    IF IsOpaque(h, p) THEN opqWithStart(h, p, start)
    ELSE EmbeddedWithStart(h, p, start)

\* p.WithEnd(end), by the type of the object; an opqNumber and an opqSequence
\* promote the method of what they embed.
WithEnd(h, p, end) ==
    LET e == Embedded(h, p)
    IN  IF h[e].type = "FiniteNumber"
        THEN FiniteNumberWithEnd(h, e, end)
        ELSE mantissaWithStartWithEnd(h, e, end)

\* The objects that have At, WithSignificant and Exponent.
IsNumber(h, p) == h[Embedded(h, p)].type = "FiniteNumber"

\* The objects that have Backward: a *FiniteNumber or a *mantissaWithStart that
\* is not inside an opqNumber or an opqSequence.
IsFiniteSequence(h, p) == ~IsOpaque(h, p)

\* (*FiniteNumber).WithSignificant, past its check of limit
WithSignificant(h, p, limit) == FiniteNumberWithEnd(h, Embedded(h, p), limit)

\* Exponent()
Exponent(h, p) == h[Embedded(h, p)].exponent

\* IsZero()
IsZero(h, p) == h[Embedded(h, p)].mantissa = NilSpec

\* The spec and the start the iterators of the object scan from: 0 for a
\* *FiniteNumber, m.start for a *mantissaWithStart.
MantissaOf(h, p) == h[Embedded(h, p)].mantissa

StartOf(h, p) == h[Embedded(h, p)].start

(***************************************************************************)
(* Reading through a view.  Each method of mantissa and of limitSpec comes *)
(* to one call on the memoizer, or to none when the spec is nil: the plan  *)
(* of the call is the memoizer (0: none) and the arguments it is given.    *)
(***************************************************************************)
limitSpecAtPastLimitIsDigit(l, index) ==
    [m |-> l.delegate.p, index |-> index, discard |-> FALSE]

\* limitSpec.At: if index >= l.limit { l.delegate.At(l.limit); return -1 };
\* return l.delegate.At(index).  discard: the delegate's answer is dropped.
limitSpecAt(l, index) ==
    IF index >= l.limit
    THEN [m |-> l.delegate.p, index |-> l.limit, discard |-> TRUE]
    ELSE [m |-> l.delegate.p, index |-> index, discard |-> FALSE]

\* mantissa.At(posit)
mantissaAt(h, spec, posit) ==
    CASE spec.k = "nil"       -> [m |-> 0, index |-> posit, discard |-> TRUE]
      [] spec.k = "memoizer"  -> [m |-> spec.p, index |-> posit, discard |-> FALSE]
      [] spec.k = "limitSpec" -> limitSpecAt(h[spec.p], posit)

limitSpecScanKeepsLimit(l, index, limit) ==
    [m |-> l.delegate.p, index |-> Min(index, l.limit), limit |-> limit]

\* limitSpec.Scan and limitSpec.ScanValues: index = min(index, l.limit);
\* limit = min(limit, l.limit); the delegate scans.
limitSpecScan(l, index, limit) ==
    [m |-> l.delegate.p, index |-> Min(index, l.limit), limit |-> Min(limit, l.limit)]

\* spec.Scan(index, limit, yield), spec.ScanValues(index, limit, yield)
specScan(h, spec, index, limit) ==
    CASE spec.k = "nil"       -> [m |-> 0, index |-> index, limit |-> limit]
      [] spec.k = "memoizer"  -> [m |-> spec.p, index |-> index, limit |-> limit]
      [] spec.k = "limitSpec" -> limitSpecScan(h[spec.p], index, limit)

\* mantissa.Scan(index, yield) and mantissa.ScanValues(index, yield)
mantissaScan(h, spec, index) == specScan(h, spec, index, MaxInt)

Max(a, b) == IF a > b THEN a ELSE b

mantissaScanInRangeFromStart(h, spec, index, start, end) ==
    specScan(h, spec, start, end)

\* mantissa.ScanInRange(index, start, end, yield)
mantissaScanInRange(h, spec, index, start, end) ==
    specScan(h, spec, Max(index, start), end)

\* limitSpec.FirstN: if n > l.limit { n = l.limit }; return l.delegate.FirstN(n)
limitSpecFirstN(l, n) ==
    [m |-> l.delegate.p, n |-> IF n > l.limit THEN l.limit ELSE n]

\* mantissa.allDigits(): nil, or spec.FirstN(math.MaxInt)
allDigits(h, spec) ==
    CASE spec.k = "nil"       -> [m |-> 0, n |-> 0]
      [] spec.k = "memoizer"  -> [m |-> spec.p, n |-> MaxInt]
      [] spec.k = "limitSpec" -> limitSpecFirstN(h[spec.p], MaxInt)

ReverseScanFromZero(digits, start, stop) ==
    LET n == Len(digits)
        k == IF stop > 0 /\ stop < n THEN stop ELSE n
    IN  [j \in 1..k |-> <<Len(digits) - j, digits[Len(digits) - j + 1]>>]

\* mantissa.ReverseScan(start, yield) on the digits allDigits returned:
\* for index := len(digits) - 1; index >= start; index-- { yield(index, digits[index]) },
\* up to the yield that returns false.
ReverseScan(digits, start, stop) ==
    LET n == IF Len(digits) > start THEN Len(digits) - start ELSE 0
        k == IF stop > 0 /\ stop < n THEN stop ELSE n
    IN  [j \in 1..k |-> <<Len(digits) - j, digits[Len(digits) - j + 1]>>]

\* The call that returns at once: the spec of the mantissa is nil.
NoDigits(op, index, limit, stop) ==
    [NewCall(op, 0, index, limit, stop) EXCEPT !.pc = "returned", !.ret = -1]

NoRead == [op |-> "none", a |-> 0, b |-> 0, stop |-> 0]

\* The view of a reader: its arena h, the Number the factory returned (base),
\* the object it holds now (cur), the one it held before the last view
\* operation (prev), the view operations that made cur of base (chain), how
\* many of them had been applied when the reader was given its view (given),
\* the method
\* it has called last on cur (call), whether limitSpec.At drops the answer of
\* that call (discard), the stream it has kept (kept) and the panic that
\* ended it, in the call of the method call then names.
NewView(h, base) ==
    [on |-> TRUE, h |-> h, base |-> base, cur |-> base, prev |-> base, chain |-> <<>>,
     given |-> 0, call |-> NoRead, discard |-> FALSE, kept |-> NoRead, keptOut |-> <<>>, panic |-> ""]

CanUse(r) == vw[r].on /\ vw[r].panic = "" /\ CanCall(r)

\* The reader holds the result of a view operation; what it read through the
\* view it held before is dropped.
Holding(v, op, arg, result) ==
    [v EXCEPT !.h = result.h, !.cur = result.p, !.prev = v.cur,
              !.chain = Append(@, <<op, arg>>),
              !.call = NoRead, !.discard = FALSE, !.kept = NoRead, !.keptOut = <<>>]

Applied(r, op, arg, result) ==
    /\ vw' = [vw EXCEPT ![r] = Holding(vw[r], op, arg, result)]
    /\ th' = [th EXCEPT ![r] = IdleThread]

\* v := v.WithStart(start)
ViewWithStart(r, start, depth) ==
    /\ CanUse(r)
    /\ Len(vw[r].chain) - vw[r].given < depth
    /\ Applied(r, "WithStart", start, WithStart(vw[r].h, vw[r].cur, start))
    /\ UNCHANGED <<fmt, gen, ctx, memo, cl, fac, usr>>

\* v := v.WithEnd(end)
ViewWithEnd(r, end, depth) ==
    /\ CanUse(r)
    /\ Len(vw[r].chain) - vw[r].given < depth
    /\ Applied(r, "WithEnd", end, WithEnd(vw[r].h, vw[r].cur, end))
    /\ UNCHANGED <<fmt, gen, ctx, memo, cl, fac, usr>>

ViewWithSignificantNoCheck(r, limit, depth) ==
    /\ CanUse(r)
    /\ Len(vw[r].chain) - vw[r].given < depth
    /\ IsNumber(vw[r].h, vw[r].cur)
    /\ Applied(r, "WithSignificant", limit, WithSignificant(vw[r].h, vw[r].cur, limit))
    /\ UNCHANGED <<fmt, gen, ctx, memo, cl, fac, usr>>

\* v := v.WithSignificant(limit): if limit < 0 { panic("limit must be non-negative") }
ViewWithSignificant(r, limit, depth) ==
    /\ CanUse(r)
    /\ Len(vw[r].chain) - vw[r].given < depth
    /\ IsNumber(vw[r].h, vw[r].cur)
    /\ IF limit < 0
       THEN /\ vw' = [vw EXCEPT ![r].panic = "limit must be non-negative",
                                ![r].call = [op |-> "WithSignificant", a |-> limit,
                                             b |-> 0, stop |-> 0]]
            /\ th' = [th EXCEPT ![r] = IdleThread]
       ELSE Applied(r, "WithSignificant", limit, WithSignificant(vw[r].h, vw[r].cur, limit))
    /\ UNCHANGED <<fmt, gen, ctx, memo, cl, fac, usr>>

\* The reader calls the memoizer as planned, or returns at once for a nil spec.
Called(r, op, a, b, stop, discard) ==
    vw' = [vw EXCEPT ![r].call = [op |-> op, a |-> a, b |-> b, stop |-> stop],
                     ![r].discard = discard]

\* v.At(posit)
ViewAt(r, posit) ==
    /\ CanUse(r)
    /\ IsNumber(vw[r].h, vw[r].cur)
    /\ \E c \in {mantissaAt(vw[r].h, MantissaOf(vw[r].h, vw[r].cur), posit)} :
          /\ IF c.m = 0
             THEN /\ th' = [th EXCEPT ![r] = NoDigits("At", posit, 0, 0)]
                  /\ UNCHANGED memo
             ELSE memoizerAt(r, c.m, c.index)
          /\ Called(r, "At", posit, 0, 0, c.discard)
    /\ UNCHANGED <<fmt, gen, ctx, cl, fac, usr>>

\* The reader ranges over an iterator that scans as planned by c.
Scanned(r, c, stop) ==
    IF c.m = 0
    THEN /\ th' = [th EXCEPT ![r] = NoDigits("Scan", c.index, c.limit, stop)]
         /\ UNCHANGED memo
    ELSE memoizerScan(r, c.m, c.index, c.limit, stop)

\* for range v.All(), up to the yield number stop
ViewAll(r, stop) ==
    /\ CanUse(r)
    /\ Scanned(r, mantissaScan(vw[r].h, MantissaOf(vw[r].h, vw[r].cur),
                               StartOf(vw[r].h, vw[r].cur)), stop)
    /\ Called(r, "All", 0, 0, stop, FALSE)
    /\ UNCHANGED <<fmt, gen, ctx, cl, fac, usr>>

\* for range v.AllInRange(start, end), up to the yield number stop
ViewAllInRange(r, start, end, stop) ==
    /\ CanUse(r)
    /\ Scanned(r, mantissaScanInRange(vw[r].h, MantissaOf(vw[r].h, vw[r].cur),
                                      StartOf(vw[r].h, vw[r].cur), start, end), stop)
    /\ Called(r, "AllInRange", start, end, stop, FALSE)
    /\ UNCHANGED <<fmt, gen, ctx, cl, fac, usr>>

\* for range v.Values(), up to the yield number stop
ViewValues(r, stop) ==
    /\ CanUse(r)
    /\ Scanned(r, mantissaScan(vw[r].h, MantissaOf(vw[r].h, vw[r].cur),
                               StartOf(vw[r].h, vw[r].cur)), stop)
    /\ Called(r, "Values", 0, 0, stop, FALSE)
    /\ UNCHANGED <<fmt, gen, ctx, cl, fac, usr>>

\* for range v.Backward(), up to the yield number stop: allDigits() first
ViewBackward(r, stop) ==
    /\ CanUse(r)
    /\ IsFiniteSequence(vw[r].h, vw[r].cur)
    /\ \E c \in {allDigits(vw[r].h, MantissaOf(vw[r].h, vw[r].cur))} :
          IF c.m = 0
          THEN /\ th' = [th EXCEPT ![r] = NoDigits("FirstN", 0, 0, 0)]
               /\ UNCHANGED memo
          ELSE memoizerFirstN(r, c.m, c.n)
    /\ Called(r, "Backward", 0, 0, stop, FALSE)
    /\ UNCHANGED <<fmt, gen, ctx, cl, fac, usr>>

\* The reader's last call has returned.
Read(r) == vw[r].on /\ vw[r].call.op # "none" /\ th[r].pc = "returned"

\* What v.At returned: -1 when limitSpec.At dropped the delegate's answer or
\* the spec is nil.
AtResult(r) == IF vw[r].discard THEN -1 ELSE th[r].ret

\* The pairs All and AllInRange yielded: Scan yields index, data[index] from
\* its first index on.
PairsYielded(r) == [k \in 1..Len(th[r].out) |-> <<th[r].from + k - 1, th[r].out[k]>>]

\* The values Values yielded.
ValuesYielded(r) == th[r].out

\* The pairs Backward yielded.
BackwardYielded(r) ==
    ReverseScan(th[r].out, StartOf(vw[r].h, vw[r].cur), vw[r].call.stop)

\* What the reader's last call yielded.
Yielded(r) ==
    CASE vw[r].call.op \in {"All", "AllInRange"} -> PairsYielded(r)
      [] vw[r].call.op = "Values"                 -> ValuesYielded(r)
      [] vw[r].call.op = "Backward"               -> BackwardYielded(r)

\* digits := slices.Collect(v.Values()), pairs := maps.Collect(v.All()): the
\* reader keeps what an iteration that ran to its end yielded.
ViewKeep(r) ==
    /\ Read(r)
    /\ vw[r].call.op \in {"All", "Values"}
    /\ vw[r].call.stop = 0
    /\ vw[r].kept.op = "none"
    /\ vw' = [vw EXCEPT ![r].kept = vw[r].call, ![r].keptOut = Yielded(r)]
    /\ UNCHANGED <<fmt, gen, ctx, memo, th, cl, fac, usr>>

(***************************************************************************)
(* The memoizer's specification: one memoizer that a Context has made      *)
(* with newMemoizeSpec(digits), two readers and a thread closing the       *)
(* Context.                                                                *)
(***************************************************************************)
\* The digits the memoizers of this specification read; no two chunks of them
\* are alike.
TestDigits(n) == [p \in 1..n |-> (p + p \div 10 + p \div 100) % 10]

\* The iter closures: mantissas of 0, 100, 101 and 200 digits, one that ends
\* by the out of range value 12, and one that never ends.
MemoProducers ==
    {newRepeatingIter(TestDigits(n), <<>>) : n \in {0, 100, 101, 200}}
    \cup {newRepeatingIter(<<3, 1, 12, 5>>, <<>>),
          newRepeatingIter(<<1, 0, 2>>, <<0, 0, 3, 4>>)}

AtArgs == {-1, 0, 99, 100, 200}

FirstNArgs == {0, 101}

ScanArgs == {<<99, 101, 0>>, <<0, MaxInt, 3>>}

\* No generator under test.
RootIdle ==
    gen = [radNum |-> 1, radDenom |-> 1, g |-> Generate(1, 1, newSqrtManager),
           digits |-> <<>>, ended |-> FALSE]

\* No factory call yet.
NoCall == [call |-> [fn |-> "none"], out |-> "none", afterClose |-> FALSE]

\* A reader that reads a memoizer directly holds no view; a caller that has
\* called no factory holds no arguments.
NoView == [on |-> FALSE]

NoCaller == [on |-> FALSE]

\* No Number is being printed.
NoFormat == [pc |-> "idle"]

\* A Context, the zero value: not closed, no specs.
MemoIdle ==
    /\ ctx = [active |-> 0, closed |-> FALSE, mu |-> "free", specs |-> <<>>]
    /\ memo = [m \in MemoIds |-> NoMemo]
    /\ th = [t \in Threads |-> IdleThread]
    /\ cl = [pc |-> "idle", k |-> 1, calls |-> 0]
    /\ fac = NoCall
    /\ vw = [t \in Threads |-> NoView]
    /\ usr = NoCaller
    /\ fmt = NoFormat

MemoInit ==
    /\ RootIdle
    /\ ctx = [active |-> 1, closed |-> FALSE, mu |-> "free", specs |-> <<1>>]
    /\ \E it \in MemoProducers :
           memo = [m \in MemoIds |-> IF m = 1 THEN newMemoizer(it) ELSE NoMemo]
    /\ th = [t \in Threads |-> IdleThread]
    /\ cl = [pc |-> "idle", k |-> 1, calls |-> 0]
    /\ fac = NoCall
    /\ vw = [t \in Threads |-> NoView]
    /\ usr = NoCaller
    /\ fmt = NoFormat

(***************************************************************************)
(* The views' specification: a Number that a factory has returned on a     *)
(* Context that is not closed (the Context all the package's functions     *)
(* use never is), the goroutine of its memoizer, and a reader that builds  *)
(* views of it and reads through them.                                     *)
(***************************************************************************)
\* The Numbers: zero; 0.317e1 and a Number of 101 digits, as NewFiniteNumber
\* returns them; the root 317 of 100489 and a Number without end, as
\* newNumber returns them, inside an opqNumber.
ViewBases ==
    {[zero |-> TRUE,  it |-> newRepeatingIter(<<>>, <<>>), opaque |-> FALSE, exp |-> 0],
     [zero |-> FALSE, it |-> newRepeatingIter(<<3, 1, 7>>, <<>>), opaque |-> FALSE, exp |-> 1],
     [zero |-> FALSE, it |-> newRepeatingIter(TestDigits(101), <<>>), opaque |-> FALSE, exp |-> -2],
     [zero |-> FALSE, it |-> newRepeatingIter(<<3, 1, 7>>, <<>>), opaque |-> TRUE, exp |-> 3],
     [zero |-> FALSE, it |-> newRepeatingIter(<<1, 0, 2>>, <<0, 0, 3, 4>>), opaque |-> TRUE, exp |-> 0]}

\* c.newFiniteNumber(digits, exp), and c.newNumber(digits, exp) around it, on
\* memoizer 1; zeroNumber for zero.
BaseView(b) ==
    IF b.zero THEN NewView(ZeroArena, zeroNumber)
    ELSE LET n == Alloc(ZeroArena, NewFiniteNumberObject(memoizerRef(1), b.exp))
             o == opaqueNumber(n.h, n.p)
         IN  IF b.opaque THEN NewView(o.h, o.p) ELSE NewView(n.h, n.p)

\* The view a chain of WithStart and WithEnd makes of the view v.
RECURSIVE ViewOf(_, _)
ViewOf(v, chain) ==
    IF chain = <<>> THEN v
    ELSE LET op == chain[Len(chain)]
             w  == ViewOf(v, SubSeq(chain, 1, Len(chain) - 1))
         IN  Holding(w, op[1], op[2],
                     IF op[1] = "WithStart" THEN WithStart(w.h, w.cur, op[2])
                     ELSE WithEnd(w.h, w.cur, op[2]))

\* One of the Numbers on a Context that is not closed, its memoizer started,
\* and readers that hold one of the given views of it.
ViewInitOf(bases, chains, readers) ==
    /\ RootIdle
    /\ \E b \in bases, x \in chains :
          /\ ctx = [active |-> IF b.zero THEN 0 ELSE 1, closed |-> FALSE, mu |-> "free",
                    specs |-> IF b.zero THEN <<>> ELSE <<1>>]
          /\ memo = [m \in MemoIds |-> IF m = 1 /\ ~b.zero THEN newMemoizer(b.it) ELSE NoMemo]
          /\ vw = [t \in Threads |-> IF t \in readers
                                   THEN [ViewOf(BaseView(b), x) EXCEPT !.given = Len(x)]
                                   ELSE NoView]
    /\ th = [t \in Threads |-> IdleThread]
    /\ cl = [pc |-> "idle", k |-> 1, calls |-> 0]
    /\ fac = NoCall
    /\ usr = NoCaller
    /\ fmt = NoFormat

ViewInit == ViewInitOf(ViewBases, {<<>>}, {"r1"})

\* The arguments of the reader: starts inside the first and at the second
\* chunk, ends inside the first and in the second chunk, a limit below zero,
\* positions on both sides of the limits and of the chunk boundary.
MaxChain == 2

ViewStarts == {2, 100}

ViewEnds == {2, 150}

ViewLimits == {-1, 0, 2, 150}

ViewAtArgs == {-1, 1, 2, 100, 150}

ViewStops == {0, 2}

ViewRanges == {<<1, 3>>, <<99, 102>>, <<3, 1>>}

ViewNext ==
    \/ \E m \in MemoIds : WorkerWaitToGrow(m)
    \/ \E m \in MemoIds : WorkerProduce(m)
    \/ \E m \in MemoIds : WorkerCheckClosed(m)
    \/ \E m \in MemoIds : WorkerSetData(m)
    \/ \E m \in MemoIds : WorkerEnd(m)
    \/ \E s \in ViewStarts : ViewWithStart("r1", s, MaxChain)
    \/ \E e \in ViewEnds : ViewWithEnd("r1", e, MaxChain)
    \/ \E l \in ViewLimits : ViewWithSignificant("r1", l, MaxChain)
    \/ \E i \in ViewAtArgs : ViewAt("r1", i)
    \/ \E stop \in ViewStops : ViewAll("r1", stop)
    \/ \E a \in ViewRanges, stop \in ViewStops : ViewAllInRange("r1", a[1], a[2], stop)
    \/ \E stop \in ViewStops : ViewValues("r1", stop)
    \/ \E stop \in ViewStops : ViewBackward("r1", stop)
    \/ ViewKeep("r1")
    \/ \E r \in Readers : ScanWaitAgain(r)
    \/ \E t \in Threads : Resume(t)

ViewSpec == ViewInit /\ [][ViewNext]_vars

(***************************************************************************)
(* The view operations' specification: the Numbers above, and a caller     *)
(* that applies up to MaxAlgebraChain view operations to one of them,      *)
(* reading nothing.  The operations compute no digit.                      *)
(***************************************************************************)
MaxAlgebraChain == 3

AlgebraStarts == {-1, 0, 2, 5}

AlgebraEnds == {-3, 0, 2, 5, 150}

AlgebraLimits == {-1, 0, 2, 5, 150}

AlgebraInit == ViewInit

AlgebraNext ==
    \/ \E s \in AlgebraStarts : ViewWithStart("r1", s, MaxAlgebraChain)
    \/ \E e \in AlgebraEnds : ViewWithEnd("r1", e, MaxAlgebraChain)
    \/ \E l \in AlgebraLimits : ViewWithSignificant("r1", l, MaxAlgebraChain)

AlgebraSpec == AlgebraInit /\ [][AlgebraNext]_vars

(***************************************************************************)
(* The twin views' specification: two readers are given the same view of   *)
(* a Number on a Context that is not closed; the first applies up to two   *)
(* more operations to it and the second one, and both range over All().    *)
(***************************************************************************)
TwinBases == {b \in ViewBases : Len(b.it.fixed) = 101 \/ b.it.repeating # <<>>}

TwinViews == {<<>>, <<<<"WithStart", 2>>>>, <<<<"WithEnd", 101>>>>}

TwinStarts == {2, 100}

TwinEnds == {2, 101}

\* The operations each reader applies at most.
TwinDepth == [r \in Readers |-> IF r = "r1" THEN 2 ELSE 1]

TwinInit == ViewInitOf(TwinBases, TwinViews, Readers)

TwinNext ==
    \/ \E m \in MemoIds : WorkerWaitToGrow(m)
    \/ \E m \in MemoIds : WorkerProduce(m)
    \/ \E m \in MemoIds : WorkerCheckClosed(m)
    \/ \E m \in MemoIds : WorkerSetData(m)
    \/ \E m \in MemoIds : WorkerEnd(m)
    \/ \E r \in Readers, s \in TwinStarts : ViewWithStart(r, s, TwinDepth[r])
    \/ \E r \in Readers, e \in TwinEnds : ViewWithEnd(r, e, TwinDepth[r])
    \/ \E r \in Readers : ViewAll(r, 0)
    \/ \E r \in Readers : ScanWaitAgain(r)
    \/ \E t \in Threads : Resume(t)

TwinSpec == TwinInit /\ [][TwinNext]_vars

\* The steps of a memoizer, its readers and the closer, for readers that draw
\* their arguments from the given sets.
MemoSteps(atArgs, firstNArgs, scanArgs) ==
    \/ \E m \in MemoIds : WorkerWaitToGrow(m)
    \/ \E m \in MemoIds : WorkerProduce(m)
    \/ \E m \in MemoIds : WorkerCheckClosed(m)
    \/ \E m \in MemoIds : WorkerSetData(m)
    \/ \E m \in MemoIds : WorkerEnd(m)
    \/ \E r \in Readers, m \in MemoIds, i \in atArgs : ReaderAt(r, m, i)
    \/ \E r \in Readers, m \in MemoIds, n \in firstNArgs : ReaderFirstN(r, m, n)
    \/ \E r \in Readers, m \in MemoIds, a \in scanArgs : ReaderScan(r, m, a[1], a[2], a[3])
    \/ \E r \in Readers : ScanWaitAgain(r)
    \/ \E t \in Threads : Resume(t)
    \/ CloseBegin
    \/ CloseDrain
    \/ CloseEnd

MemoNext == MemoSteps(AtArgs, FirstNArgs, ScanArgs)

MemoSpec == MemoInit /\ [][MemoNext]_vars

\* The steps of run() on memoizer m.
Worker(m) ==
    \/ WorkerWaitToGrow(m)
    \/ WorkerProduce(m)
    \/ WorkerCheckClosed(m)
    \/ WorkerSetData(m)
    \/ WorkerEnd(m)

\* Go schedules every runnable goroutine: run() goes on while it can, and so
\* does a thread that is inside wait or Scan.  No thread has to start a call.
MemoFairness ==
    /\ \A m \in MemoIds : WF_vars(Worker(m))
    /\ \A t \in Threads : WF_vars(Resume(t))
    /\ \A r \in Readers : WF_vars(ScanWaitAgain(r))

\* The readers of FairMemoSpec ask for a digit of the second chunk, for one past
\* kMaxChunks chunks, for the first 101 digits and for a Scan over two chunks.
FairAtArgs == {100, 200}

FairFirstNArgs == {101}

FairScanArgs == {<<99, 101, 0>>}

FairMemoNext == MemoSteps(FairAtArgs, FairFirstNArgs, FairScanArgs)

FairMemoSpec == MemoInit /\ [][FairMemoNext]_vars /\ MemoFairness

(***************************************************************************)
(* The Context's specification: an explicit Context, the factory calls on  *)
(* it, the goroutines of the memoizers it made, a reader and a thread that *)
(* closes it.  A root without end cannot be run for a chunk of digits      *)
(* inside TLC's integers; the Numbers without end are those of             *)
(* NewNumberForTesting.                                                    *)
(***************************************************************************)
FactoryCalls ==
    {[fn |-> "Sqrt", num |-> 100489, denom |-> 1],
     [fn |-> "Sqrt", num |-> 0, denom |-> 1],
     [fn |-> "Sqrt", num |-> -1, denom |-> 1],
     [fn |-> "CubeRoot", num |-> 27, denom |-> 0],
     [fn |-> "CubeRoot", num |-> 0, denom |-> -1],
     [fn |-> "NewNumberForTesting", fixed |-> <<1, 0, 2>>, repeating |-> <<0, 0, 3, 4>>],
     [fn |-> "NewNumberForTesting", fixed |-> <<>>, repeating |-> <<>>],
     [fn |-> "NewNumberForTesting", fixed |-> <<0, 1>>, repeating |-> <<>>],
     [fn |-> "NewFiniteNumber", fixed |-> <<1, 12>>],
     [fn |-> "NewNumber", fixed |-> <<2, 5, 11, 7>>, repeating |-> <<>>],
     [fn |-> "NewNumber", fixed |-> <<0, 5>>, repeating |-> <<>>]}

\* The calls that make a Number with a memoizer on an open Context.
NumberCalls == {c \in FactoryCalls : ~FactoryStart(c).early}

CtxReaders == {"r1"}

CtxAtArgs == {3, MaxInt - 1}

Init ==
    /\ RootIdle
    /\ MemoIdle

Next ==
    \/ \E c \in NumberCalls : Factory(c)
    \/ \E m \in MemoIds : WorkerWaitToGrow(m)
    \/ \E m \in MemoIds : WorkerProduce(m)
    \/ \E m \in MemoIds : WorkerCheckClosed(m)
    \/ \E m \in MemoIds : WorkerSetData(m)
    \/ \E m \in MemoIds : WorkerEnd(m)
    \/ \E r \in CtxReaders, m \in MemoIds, i \in CtxAtArgs : ReaderAt(r, m, i)
    \/ \E t \in Threads : Resume(t)
    \/ CloseBegin
    \/ CloseDrain
    \/ CloseEnd

Spec == Init /\ [][Next]_vars

\* As MemoFairness, and a thread inside Close goes on while it can.
FairSpec ==
    /\ Spec
    /\ \A m \in MemoIds : WF_vars(Worker(m))
    /\ \A t \in Threads : WF_vars(Resume(t))
    /\ WF_vars(CloseDrain)
    /\ WF_vars(CloseEnd)

(***************************************************************************)
(* The factories' specification: every kind of factory call on an explicit *)
(* Context, before, while and after the Context is closed, with the        *)
(* goroutines of the memoizers and no reader but Close itself.             *)
(***************************************************************************)
FactoryNext ==
    \/ \E c \in FactoryCalls : Factory(c)
    \/ \E m \in MemoIds : WorkerWaitToGrow(m)
    \/ \E m \in MemoIds : WorkerProduce(m)
    \/ \E m \in MemoIds : WorkerCheckClosed(m)
    \/ \E m \in MemoIds : WorkerSetData(m)
    \/ \E m \in MemoIds : WorkerEnd(m)
    \/ Resume(Closer)
    \/ CloseBegin
    \/ CloseDrain
    \/ CloseEnd
    \/ CloseNil

FactorySpec == Init /\ [][FactoryNext]_vars

(***************************************************************************)
(* The caller's specification: a caller that calls a factory on a Context  *)
(* that is not closed and then writes to the arguments it passed, the      *)
(* goroutine of the Number's memoizer, and a reader of the Number.  The    *)
(* roots have few digits: 317, 1.5 and 1.5 again.                          *)
(***************************************************************************)
CallerCalls ==
    {[fn |-> "SqrtBigInt", num |-> 100489, denom |-> 1],
     [fn |-> "SqrtBigRat", num |-> 9, denom |-> 4],
     [fn |-> "CubeRootBigRat", num |-> 27, denom |-> 8],
     [fn |-> "CubeRootBigInt", num |-> 0, denom |-> 1],
     [fn |-> "NewNumberForTesting", fixed |-> <<>>, repeating |-> <<>>, exp |-> 5],
     [fn |-> "NewNumberForTesting", fixed |-> <<1, 12>>, repeating |-> <<>>, exp |-> 0],
     [fn |-> "NewNumberForTesting", fixed |-> <<1>>, repeating |-> <<-1>>, exp |-> 0],
     [fn |-> "NewNumberForTesting", fixed |-> <<0, 1>>, repeating |-> <<>>, exp |-> 2],
     [fn |-> "NewNumberForTesting", fixed |-> <<>>, repeating |-> <<0, 3>>, exp |-> 2],
     [fn |-> "NewNumberForTesting", fixed |-> <<1, 0, 2>>, repeating |-> <<0, 0, 3, 4>>, exp |-> -3],
     [fn |-> "NewNumberForTesting", fixed |-> <<3, 1, 7>>, repeating |-> <<>>, exp |-> 1],
     [fn |-> "NewNumberForTesting", fixed |-> <<>>, repeating |-> <<7>>, exp |-> 0]}

\* What the caller writes after the call: squares and cubes for a radicand,
\* other digits for a slice.
CallerWrites ==
    {<<"radican.num", 144>>, <<"radican.num", 64>>, <<"radican.denom", 1>>,
     <<"radican.denom", 9>>,
     <<"fixed", <<9, 9, 9>>>>, <<"fixed", <<5>>>>, <<"fixed", <<>>>>,
     <<"repeating", <<8, 8, 8, 8>>>>, <<"repeating", <<6>>>>, <<"repeating", <<>>>>}

MaxSets == 2

CallerAtArgs == {0, 1, 2, 3, 5, 100}

CallerInit == Init

CallerNext ==
    \/ \E c \in CallerCalls : CallerFactory(c)
    \/ \E w \in CallerWrites : CallerSet(w[1], w[2], MaxSets)
    \/ \E m \in MemoIds : WorkerWaitToGrow(m)
    \/ \E m \in MemoIds : WorkerProduce(m)
    \/ \E m \in MemoIds : WorkerCheckClosed(m)
    \/ \E m \in MemoIds : WorkerSetData(m)
    \/ \E m \in MemoIds : WorkerEnd(m)
    \/ \E i \in CallerAtArgs : ReaderAt("r1", 1, i)
    \/ \E t \in Threads : Resume(t)

CallerSpec == CallerInit /\ [][CallerNext]_vars

(***************************************************************************)
(* What a fresh iter closure returns, call by call: call number i + 1 of   *)
(* the closure of a repeatingGenerator returns fixed[i], then repeating    *)
(* over and over, or -1 when repeating is empty.                           *)
(***************************************************************************)
StreamAt(it, i) ==
    IF i < Len(it.fixed) THEN it.fixed[i + 1]
    ELSE IF it.repeating = <<>> THEN -1
    ELSE it.repeating[((i - Len(it.fixed)) % Len(it.repeating)) + 1]

\* One of the calls 1 .. i + 1 returns a value out of range: the mantissa has
\* i digits or fewer.
EndsBy(it, i) == \E j \in 0..i : digitOutOfRange(StreamAt(it, j))

IsPrefix(s, t) == Len(s) <= Len(t) /\ SubSeq(t, 1, Len(s)) = s

\* The memoizer's last position, kMaxChunks chunks: 9.2e18 digits in the code.
MaxLength == kMemoizerChunkSize * kMaxChunks

HasRead(t, p) ==
    CASE th[t].op = "At" ->
            th[t].pc = "returned" /\ th[t].index = p /\ th[t].ret >= 0
      [] th[t].op = "FirstN" -> p >= 0 /\ p < Len(th[t].out)
      [] th[t].op = "Scan" -> p >= th[t].from /\ p < th[t].from + Len(th[t].out)
      [] OTHER -> FALSE

DigitRead(t, p) ==
    CASE th[t].op = "At" -> th[t].ret
      [] th[t].op = "FirstN" -> th[t].out[p + 1]
      [] th[t].op = "Scan" -> th[t].out[p - th[t].from + 1]

C3_DigitsAreStable ==
    \A t1 \in Threads, t2 \in Threads :
        (t1 # t2 /\ th[t1].m = th[t2].m) =>
            /\ \A p \in 0..MaxInt :
                   (HasRead(t1, p) /\ HasRead(t2, p)) => DigitRead(t1, p) = DigitRead(t2, p)
            /\ (/\ th[t1].pc = "returned" /\ th[t1].op = "At"
                /\ th[t2].pc = "returned" /\ th[t2].op = "At"
                /\ th[t1].index = th[t2].index) => th[t1].ret = th[t2].ret

\* Two readers have read the first digit of the second chunk, one by At and one
\* by Scan.
C3_Witness ==
    \E t1 \in Readers, t2 \in Readers :
        /\ t1 # t2 /\ th[t1].m = th[t2].m
        /\ th[t1].op = "At" /\ th[t2].op = "Scan"
        /\ HasRead(t1, 100) /\ HasRead(t2, 100)

(***************************************************************************)
(* C9, as claimed: a thread is suspended in wait(i) only if                *)
(* i < kMaxChunks * kMemoizerChunkSize and done = false; wait(i) with      *)
(* i >= kMaxChunks * kMemoizerChunkSize never suspends.                    *)
(***************************************************************************)
C9_SuspendsOnlyBelowMaxLength ==
    \A t \in Threads :
        th[t].pc = "suspended" => (WaitIndex(th[t]) < MaxLength /\ ~memo[th[t].m].done)

(***************************************************************************)
(* C9, amended: a thread is suspended in wait(i) only if done = false and  *)
(* len(data) <= i; i may be kMaxChunks * kMemoizerChunkSize or more, and   *)
(* wait then suspends until done is published.                             *)
(***************************************************************************)
C9_SuspendsOnlyWhileNotDone ==
    \A t \in Threads :
        th[t].pc = "suspended" =>
            (~memo[th[t].m].done /\ Len(memo[th[t].m].data) <= WaitIndex(th[t]))

\* A reader is suspended in wait(200), at the memoizer's last position.
C9_Witness ==
    \E r \in Readers : th[r].pc = "suspended" /\ WaitIndex(th[r]) >= MaxLength

(***************************************************************************)
(* C10: what a memoizer publishes only grows: every step leaves the data   *)
(* published before as a prefix of the data published after, and once      *)
(* done = true is published neither data nor done changes.                 *)
(***************************************************************************)
C10_PublishedDataOnlyGrows ==
    [][\A m \in MemoIds :
          /\ IsPrefix(memo[m].data, memo'[m].data)
          /\ memo[m].done => (memo'[m].done /\ memo'[m].data = memo[m].data)]_vars

\* done = true has been published after a chunk and one more digit.
C10_Witness ==
    \E m \in MemoIds : memo[m].done /\ Len(memo[m].data) = 101

(***************************************************************************)
(* C4: with the goroutine run() and the threads inside wait scheduled      *)
(* fairly, every call of At, FirstN or Scan that has entered wait returns, *)
(* whatever the other reader and the closer do.                            *)
(***************************************************************************)
C4_ReadersReturn ==
    \A r \in Readers :
        (th[r].pc \in {"suspended", "woken", "scanWait"}) ~> (th[r].pc = "returned")

\* One reader is woken while the other is suspended, and run() waits on mustGrow.
C4_Witness ==
    \E r1 \in Readers, r2 \in Readers :
        /\ th[r1].pc = "woken" /\ th[r2].pc = "suspended"
        /\ th[r1].m = th[r2].m
        /\ memo[th[r1].m].wpc = "waitToGrow"

(***************************************************************************)
(* C5, as claimed: once Close has returned, NumGoroutines() is 0.          *)
(***************************************************************************)
C5_NoGoroutineAfterClose == cl.pc = "returned" => ctx.active = 0

(***************************************************************************)
(* C6, as claimed: every factory call after Close panics with "Context     *)
(* closed".                                                                *)
(***************************************************************************)
C6_EveryFactoryCallPanics == fac.afterClose => fac.out = "panic: Context closed"

(***************************************************************************)
(* C6, what the code does: after Close, a call whose arguments ask for a   *)
(* Number with digits (a radicand num/denom with num > 0 and denom > 0,    *)
(* a non-empty list of valid digits whose first is not 0, a Generator      *)
(* whose first digit is 1..9) panics with "Context closed"; a call with    *)
(* other arguments ends as on an open Context, with zero, an error or      *)
(* checkNumDenom's panic; and no step on a closed Context creates a        *)
(* memoizer or starts a goroutine.                                         *)
(***************************************************************************)
FirstDigit(call) ==
    IF Len(call.fixed) > 0 THEN call.fixed[1] ELSE call.repeating[1]

AsksForDigits(call) ==
    CASE call.fn \in {"Sqrt", "CubeRoot"} -> call.num > 0 /\ call.denom > 0
      [] call.fn = "NewNumberForTesting" ->
            /\ Len(call.fixed) + Len(call.repeating) > 0
            /\ \A k \in 1..Len(call.fixed) : call.fixed[k] \in 0..9
            /\ \A k \in 1..Len(call.repeating) : call.repeating[k] \in 0..9
            /\ FirstDigit(call) # 0
      [] call.fn = "NewFiniteNumber" ->
            /\ Len(call.fixed) > 0
            /\ \A k \in 1..Len(call.fixed) : call.fixed[k] \in 0..9
            /\ call.fixed[1] # 0
      [] call.fn = "NewNumber" ->
            Len(call.fixed) + Len(call.repeating) > 0 /\ FirstDigit(call) \in 1..9
      [] OTHER -> FALSE

C6_FactoryAfterClose ==
    [][/\ fac'.afterClose =>
            IF AsksForDigits(fac'.call)
            THEN fac'.out = "panic: Context closed"
            ELSE fac'.out \in {"zero", "error", "panic: Denominator must be positive",
                               "panic: Numerator must be non-negative"}
       /\ ctx.closed =>
            /\ {m \in MemoIds : memo'[m].created} = Created
            /\ ctx'.active <= ctx.active
            /\ Len(ctx'.specs) <= Len(ctx.specs)]_vars

\* Sqrt(100489) on the closed Context has panicked.
C6_Witness ==
    /\ fac.afterClose
    /\ fac.call.fn = "Sqrt"
    /\ fac.out = "panic: Context closed"

(***************************************************************************)
(* C7: once Close is called, with fair scheduling, Close returns, the      *)
(* goroutine of every memoizer the Context made ends, and every reader     *)
(* that is inside wait returns.                                            *)
(***************************************************************************)
C7_CloseEndsEverything ==
    /\ (cl.pc = "drain") ~> (cl.pc = "returned")
    /\ \A m \in MemoIds : (ctx.closed /\ memo[m].created) ~> (memo[m].wpc = "exited")
    /\ \A r \in Readers :
           (ctx.closed /\ th[r].pc \in {"suspended", "woken"}) ~> (th[r].pc = "returned")

\* Close is suspended on a memoizer on which a reader is suspended in
\* At(MaxInt - 1), with a second memoizer still to be drained.
C7_Witness ==
    /\ cl.pc = "drain"
    /\ th[Closer].pc = "suspended"
    /\ Len(ctx.specs) = 2
    /\ \E r \in Readers :
           th[r].pc = "suspended" /\ th[r].m = th[Closer].m /\ th[r].index = MaxInt - 1

(***************************************************************************)
(* C8, as claimed: when a read that came to the end of a finite mantissa   *)
(* has returned on an open Context, the goroutine of that memoizer has     *)
(* ended and is counted no more: NumGoroutines() is at most the number of  *)
(* memoizers less those with such a read (2 for three Numbers of which     *)
(* one is exhausted).                                                      *)
(***************************************************************************)
\* A reader's At(i), 0 <= i < MaxLength, has returned -1 on memoizer m.
ReadToTheEnd(m) ==
    \E r \in Readers :
        /\ th[r].pc = "returned" /\ th[r].op = "At" /\ th[r].m = m
        /\ th[r].index >= 0 /\ th[r].index < MaxLength /\ th[r].ret = -1

C8_ExhaustedGoroutineNotCounted ==
    ~ctx.closed =>
        /\ \A m \in Created : ReadToTheEnd(m) => memo[m].wpc = "exited"
        /\ ctx.active <= Cardinality(Created) - Cardinality({m \in Created : ReadToTheEnd(m)})

(***************************************************************************)
(* The root generator's specification: a radicand is chosen, then the      *)
(* closure is called again and again; digits holds what it returned.       *)
(***************************************************************************)
(***************************************************************************)
(* C11: a call of Close on a Context that is closed already returns        *)
(* without waiting and changes nothing: closed stays true, specs stays     *)
(* empty, Close itself leaves active and every memoizer as they are, and   *)
(* the closer is never suspended in it; Close on a nil Context changes     *)
(* nothing at all.                                                         *)
(***************************************************************************)
C11_SecondCloseChangesNothing ==
    [][/\ (cl.calls >= 1 /\ cl'.calls = cl.calls + 1) =>
            /\ ctx' = [ctx EXCEPT !.mu = "held"]
            /\ ctx.closed /\ ctx.specs = <<>>
            /\ memo' = memo
       /\ (cl.calls >= 2 /\ cl.pc = "drain" /\ cl' # cl) =>
            /\ cl'.pc = "returned"
            /\ ctx' = [ctx EXCEPT !.mu = "free"]
            /\ ctx'.closed /\ ctx'.specs = <<>>
            /\ memo' = memo
            /\ th[Closer].pc \notin {"suspended", "woken"}
       /\ (fac' # fac /\ fac'.call.fn = "nil.Close") =>
            UNCHANGED <<ctx, memo, th, cl>>]_vars

\* The second Close has returned on a Context that had made a memoizer, and
\* Close on a nil Context has been called after it.
C11_Witness ==
    /\ cl.calls = 2 /\ cl.pc = "returned"
    /\ Created # {}
    /\ fac.call.fn = "nil.Close"

(***************************************************************************)
(* C19: a root factory called with denom <= 0 or num < 0 panics            *)
(* ("Denominator must be positive" when denom <= 0, else "Numerator must   *)
(* be non-negative"), on an open and on a closed Context alike, and the    *)
(* call leaves the Context (active, specs) and every memoizer as they are. *)
(***************************************************************************)
InvalidRadicand(call) ==
    /\ call.fn \in {"Sqrt", "CubeRoot"}
    /\ (call.denom <= 0 \/ call.num < 0)

C19_InvalidRadicandPanicsFirst ==
    [][(fac' # fac /\ InvalidRadicand(fac'.call)) =>
            /\ fac'.out = IF fac'.call.denom <= 0
                          THEN "panic: Denominator must be positive"
                          ELSE "panic: Numerator must be non-negative"
            /\ ctx' = ctx
            /\ memo' = memo]_vars

\* CubeRoot(0/-1) has panicked on an open Context that has one memoizer.
C19_Witness ==
    /\ fac.call.fn = "CubeRoot" /\ fac.call.num = 0 /\ fac.call.denom = -1
    /\ fac.out = "panic: Denominator must be positive"
    /\ ~ctx.closed
    /\ Cardinality(Created) = 1

RootInit ==
    /\ \E num \in 1..MaxNum, denom \in 1..MaxDenom, mgr \in {newSqrtManager, newCubeRootManager} :
        gen = [radNum |-> num, radDenom |-> denom,
               g |-> Generate(num, denom, mgr),
               digits |-> <<>>, ended |-> FALSE]
    /\ MemoIdle

\* One call of digits(): a digit is appended, or the end (-1) is recorded.
RootNextDigit ==
    /\ ~gen.ended
    /\ gen.g.mgr.n * (Len(gen.digits) + 1 - gen.g.exp) <= MaxPow
    /\ LET g2 == RootDigitsCall(gen.g)
       IN  gen' = [gen EXCEPT !.g = g2,
                              !.digits = IF g2.last = -1 THEN @ ELSE Append(@, g2.last),
                              !.ended = (g2.last = -1)]
    /\ UNCHANGED memoVars

RootNext == RootNextDigit

RootSpec == RootInit /\ [][RootNext]_vars

(***************************************************************************)
(* C1: for every radicand num/denom > 0 and n in {2, 3}, every prefix      *)
(* d1..dk of the digits the generator returns is the truncated root:       *)
(* (0.d1..dk * 10^exp)^n <= num/denom < (0.d1..dk * 10^exp + 10^(exp-k))^n,*)
(* every digit is a decimal digit and the first is not 0, and the          *)
(* generator returns -1 only when the prefix is exactly the root.          *)
(* With P = d1..dk and s = exp - k the value of the prefix is P * 10^s;    *)
(* both sides are scaled by denom and by 10^(n*|s|) to stay in integers.   *)
(***************************************************************************)
\* P^n * 10^(n*s) compared with num/denom: -1 below, 0 equal, 1 above.
CmpPowerToRadicand(P, s, n, num, denom) ==
    LET lhs == IF s >= 0 THEN Pow(P, n) * Pow(10, n * s) * denom ELSE Pow(P, n) * denom
        rhs == IF s >= 0 THEN num ELSE num * Pow(10, n * (0 - s))
    IN  IF lhs < rhs THEN -1 ELSE IF lhs = rhs THEN 0 ELSE 1

C1_RootDigitsAreTruncatedRoot ==
    LET k == Len(gen.digits)
        P == DigitsValue(gen.digits)
        s == gen.g.exp - k
        n == gen.g.mgr.n
    IN  /\ \A i \in 1..k : gen.digits[i] \in 0..9
        /\ k >= 1 => gen.digits[1] # 0
        /\ k >= 1 => /\ CmpPowerToRadicand(P, s, n, gen.radNum, gen.radDenom) <= 0
                     /\ CmpPowerToRadicand(P + 1, s, n, gen.radNum, gen.radDenom) = 1
        /\ gen.ended => /\ k >= 1
                        /\ CmpPowerToRadicand(P, s, n, gen.radNum, gen.radDenom) = 0

\* A cube root of a fraction that came to its end after two digits (27/8 -> 1.5).
C1_Witness ==
    /\ gen.ended
    /\ gen.g.mgr.n = 3
    /\ gen.radDenom > 1
    /\ Len(gen.digits) = 2

(***************************************************************************)
(* The views' claims.  They are read on a Context that is not closed: once *)
(* Close has returned, a Number is cut at the digits computed so far.      *)
(***************************************************************************)
ViewReaders == {r \in Readers : vw[r].on}

\* The reader's view is the given chain of view operations on the Number.
ChainIs(r, chain) == vw[r].on /\ vw[r].chain = chain

(***************************************************************************)
(* C12: on every Number N (zero, finite, without end, limited by           *)
(* WithSignificant), N.At(i) is -1 for i < 0, and for i >= 0 it is the     *)
(* element i of the stream that N.Values() yielded to its end when that    *)
(* stream has more than i elements, and -1 when it has not.                *)
(***************************************************************************)
C12_AtIsElementOfValues ==
    \A r \in ViewReaders :
        Read(r) /\ vw[r].call.op = "At" =>
            LET i == vw[r].call.a
            IN  /\ i < 0 => AtResult(r) = -1
                /\ vw[r].kept.op = "Values" =>
                       AtResult(r) = IF i >= 0 /\ Len(vw[r].keptOut) > i
                                     THEN vw[r].keptOut[i + 1]
                                     ELSE -1

\* On the first 150 digits of the Number without end, At(100) is a digit of
\* the second chunk, the one Values yielded.
C12_Witness ==
    /\ ChainIs("r1", <<<<"WithSignificant", 150>>>>)
    /\ Read("r1")
    /\ vw["r1"].call.op = "At"
    /\ vw["r1"].call.a = 100
    /\ vw["r1"].kept.op = "Values"
    /\ Len(vw["r1"].keptOut) = 150
    /\ AtResult("r1") = vw["r1"].keptOut[101]
    /\ AtResult("r1") >= 0

\* The window of a view, by the operations that made it: it starts at the
\* largest start given (0 when none is) and ends at the smallest end or limit
\* given (MaxInt when none is).
RECURSIVE ChainStart(_)
ChainStart(chain) ==
    IF chain = <<>> THEN 0
    ELSE LET op == chain[Len(chain)]
             s  == ChainStart(SubSeq(chain, 1, Len(chain) - 1))
         IN  IF op[1] = "WithStart" /\ op[2] > s THEN op[2] ELSE s

RECURSIVE ChainEnd(_)
ChainEnd(chain) ==
    IF chain = <<>> THEN MaxInt
    ELSE LET op == chain[Len(chain)]
             e  == ChainEnd(SubSeq(chain, 1, Len(chain) - 1))
         IN  IF op[1] \in {"WithEnd", "WithSignificant"} /\ op[2] < e THEN op[2] ELSE e

\* The mantissa of the Number the reader's views are views of: the digits
\* fixed, then repeating over and over.  Its length is that of fixed when
\* repeating is empty; without end, it is the memoizer's last position.
NumberIter(r) == memo[1].iter

MantissaLength(r) ==
    IF vw[r].base = zeroNumber THEN 0
    ELSE IF NumberIter(r).repeating = <<>> THEN Len(NumberIter(r).fixed)
    ELSE MaxLength

\* The pairs (p, digit at p) for lo <= p < hi, in increasing p, up to the
\* yield number stop.
PairsOf(r, lo, hi, stop) ==
    LET n == IF hi > lo THEN hi - lo ELSE 0
        k == IF stop > 0 /\ stop < n THEN stop ELSE n
    IN  [j \in 1..k |-> <<lo + j - 1, StreamAt(NumberIter(r), lo + j - 1)>>]

(***************************************************************************)
(* C13: on a view that starts at s and ends at e, All() yields the pairs   *)
(* (p, digit at p of the mantissa) for s <= p < min(e, mantissa length),   *)
(* in increasing p, each once, and AllInRange(a, b) those for              *)
(* max(s, a) <= p < min(e, b, mantissa length); no pair is yielded after   *)
(* the yield that returns false; ranging over All() again starts at the    *)
(* first pair again.                                                       *)
(***************************************************************************)
C13_AllYieldsTheWindow ==
    \A r \in ViewReaders :
        Read(r) /\ vw[r].call.op \in {"All", "AllInRange"} =>
            LET c  == vw[r].call
                s  == ChainStart(vw[r].chain)
                e  == Min(ChainEnd(vw[r].chain), MantissaLength(r))
                lo == IF c.op = "All" THEN s ELSE Max(s, c.a)
                hi == IF c.op = "All" THEN e ELSE Min(e, c.b)
            IN  /\ Yielded(r) = PairsOf(r, lo, hi, c.stop)
                /\ c.op = "All" /\ vw[r].kept.op = "All" => IsPrefix(Yielded(r), vw[r].keptOut)

\* All() on the view from 2 to 150 of the Number without end was ranged over
\* to its end, over the chunk boundary, then again up to its second pair.
C13_Witness ==
    /\ ChainIs("r1", <<<<"WithStart", 2>>, <<"WithEnd", 150>>>>)
    /\ Read("r1")
    /\ vw["r1"].call = [op |-> "All", a |-> 0, b |-> 0, stop |-> 2]
    /\ vw["r1"].kept.op = "All"
    /\ Len(vw["r1"].keptOut) = 148
    /\ Yielded("r1") = SubSeq(vw["r1"].keptOut, 1, 2)

\* The last view operation of the reader, and the chain before it.
LastOp(r) == vw[r].chain[Len(vw[r].chain)]

ChainBefore(r) == SubSeq(vw[r].chain, 1, Len(vw[r].chain) - 1)

\* The reader's view is the result of op on the object prev.
Made(r, op) == vw[r].on /\ vw[r].chain # <<>> /\ LastOp(r)[1] = op

\* The first n digits of the Number's mantissa.
FirstDigits(r, n) == [j \in 1..n |-> StreamAt(NumberIter(r), j - 1)]

(***************************************************************************)
(* C14: for a Number N and L >= 0, N.WithSignificant(L).Values() yields    *)
(* the first min(L, mantissa length of N) digits of N as they are; the     *)
(* result has N's exponent unless it is zero; WithSignificant(0) is the    *)
(* zero Number; WithSignificant(L) with L < 0 panics and returns nothing.  *)
(***************************************************************************)
C14_WithSignificantTruncates ==
    \A r \in ViewReaders :
        /\ Made(r, "WithSignificant") =>
              LET L == LastOp(r)[2]
                  n == Min(ChainEnd(ChainBefore(r)), MantissaLength(r))
              IN  /\ L >= 0
                  /\ IsNumber(vw[r].h, vw[r].cur)
                  /\ Exponent(vw[r].h, vw[r].cur) =
                         IF IsZero(vw[r].h, vw[r].cur) THEN 0
                         ELSE Exponent(vw[r].h, vw[r].prev)
                  /\ L = 0 => vw[r].cur = zeroNumber
                  /\ Read(r) /\ vw[r].call.op = "Values" /\ vw[r].call.stop = 0 =>
                         ValuesYielded(r) = FirstDigits(r, Min(L, Max(n, 0)))
        /\ vw[r].call.op = "WithSignificant" =>
              /\ vw[r].call.a < 0
              /\ vw[r].panic = "limit must be non-negative"
        /\ vw[r].panic # "" => vw[r].call.op = "WithSignificant"

\* The first 2 of the 101 digits of a Number with exponent -2 were yielded,
\* by a view with exponent -2.
C14_Witness ==
    /\ ChainIs("r1", <<<<"WithSignificant", 2>>>>)
    /\ MantissaLength("r1") = 101
    /\ Read("r1")
    /\ vw["r1"].call = [op |-> "Values", a |-> 0, b |-> 0, stop |-> 0]
    /\ ValuesYielded("r1") = <<1, 2>>
    /\ Exponent(vw["r1"].h, vw["r1"].cur) = -2

\* The view has an end: a WithEnd or a WithSignificant has made it.
Limited(chain) == \E k \in 1..Len(chain) : chain[k][1] \in {"WithEnd", "WithSignificant"}

\* The reader's last view operation is one of those that change nothing:
\* WithSignificant(L') on the result of WithSignificant(L) with L' >= L;
\* WithEnd(e) on a view with an end at or below e; WithStart(s) on a view that
\* starts at s or later; an operation on the zero Number.
NoOp(r) ==
    LET op     == LastOp(r)
        before == ChainBefore(r)
    IN  \/ /\ op[1] = "WithSignificant"
           /\ before # <<>>
           /\ before[Len(before)][1] = "WithSignificant"
           /\ op[2] >= before[Len(before)][2]
        \/ /\ op[1] = "WithEnd"
           /\ Limited(before)
           /\ op[2] >= ChainEnd(before)
        \/ /\ op[1] = "WithStart"
           /\ op[2] <= ChainStart(before)
        \/ /\ vw[r].prev = zeroNumber
           /\ op[1] = "WithStart" => op[2] <= 0

(***************************************************************************)
(* C15: a view operation that changes nothing returns the very object it   *)
(* was called on: WithSignificant(L') with L' >= L on the result of        *)
(* WithSignificant(L); WithEnd(e) with e at or above the end of a view     *)
(* that has one; WithStart(s) with s at or below the start of the view     *)
(* (s <= 0 on a Number); and WithSignificant (of a limit that is not       *)
(* negative), WithEnd and FiniteWithStart(s <= 0) on the zero Number.      *)
(***************************************************************************)
C15_NoOpReturnsSameObject ==
    \A r \in ViewReaders :
        vw[r].chain # <<>> /\ NoOp(r) => vw[r].cur = vw[r].prev

\* WithEnd(150) on the view from 2 to 5 of the Number without end, a
\* *mantissaWithStart, has returned that *mantissaWithStart.
C15_Witness ==
    /\ ChainIs("r1", <<<<"WithStart", 2>>, <<"WithEnd", 5>>, <<"WithEnd", 150>>>>)
    /\ vw["r1"].h[vw["r1"].base].type = "opqNumber"
    /\ vw["r1"].h[vw["r1"].cur].type = "mantissaWithStart"
    /\ vw["r1"].h[vw["r1"].cur].start = 2
    /\ vw["r1"].cur = vw["r1"].prev
    /\ vw["r1"].cur # vw["r1"].base

\* The chain c1 is a view's chain with two operations op(a), op(b) after it,
\* and c2 the same view's chain with the one operation op(x) after it.
TwoForOne(c1, c2, op, x(_, _)) ==
    LET n == Len(c2)
    IN  /\ n >= 1
        /\ Len(c1) = n + 1
        /\ SubSeq(c1, 1, n - 1) = SubSeq(c2, 1, n - 1)
        /\ c1[n][1] = op /\ c1[n + 1][1] = op /\ c2[n][1] = op
        /\ c2[n][2] = x(c1[n][2], c1[n + 1][2])

(***************************************************************************)
(* C16: for a view v of a Number, v.WithStart(a).WithStart(b) yields the   *)
(* pairs v.WithStart(max(a, b)) yields, and v.WithEnd(a).WithEnd(b) the    *)
(* pairs v.WithEnd(min(a, b)) yields, whichever of a and b is the larger.  *)
(***************************************************************************)
C16_StartsAndEndsCompose ==
    /\ Read("r1") /\ vw["r1"].call.op = "All"
    /\ Read("r2") /\ vw["r2"].call.op = "All"
    /\ \/ TwoForOne(vw["r1"].chain, vw["r2"].chain, "WithStart", Max)
       \/ TwoForOne(vw["r1"].chain, vw["r2"].chain, "WithEnd", Min)
    => Yielded("r1") = Yielded("r2")

\* From position 2 on, WithStart(100).WithStart(2) and WithStart(100) have
\* both yielded the positions 100 to 199 of the Number without end.
C16_Witness ==
    /\ ChainIs("r1", <<<<"WithStart", 2>>, <<"WithStart", 100>>, <<"WithStart", 2>>>>)
    /\ ChainIs("r2", <<<<"WithStart", 2>>, <<"WithStart", 100>>>>)
    /\ vw["r1"].given = 1
    /\ Read("r1") /\ vw["r1"].call.op = "All"
    /\ Read("r2") /\ vw["r2"].call.op = "All"
    /\ Len(Yielded("r1")) = 100
    /\ Yielded("r1")[1][1] = 100
    /\ Yielded("r1") = Yielded("r2")

\* A sequence, last element first.
Reversed(s) == [j \in 1..Len(s) |-> s[Len(s) - j + 1]]

(***************************************************************************)
(* C17: on a FiniteSequence that starts at s and ends at e over a mantissa *)
(* of n digits, Backward() yields the pairs (p, digit at p) from           *)
(* p = min(e, n) - 1 down to p = s, the pairs All() yields in reverse      *)
(* order; it yields nothing when s >= min(e, n), and no pair after the     *)
(* yield that returns false.                                               *)
(***************************************************************************)
C17_BackwardIsAllReversed ==
    \A r \in ViewReaders :
        Read(r) /\ vw[r].call.op = "Backward" =>
            LET s  == ChainStart(vw[r].chain)
                hi == Min(ChainEnd(vw[r].chain), MantissaLength(r))
                n  == IF hi > s THEN hi - s ELSE 0
                k  == IF vw[r].call.stop > 0 /\ vw[r].call.stop < n THEN vw[r].call.stop ELSE n
            IN  /\ Yielded(r) = [j \in 1..k |-> <<hi - j, StreamAt(NumberIter(r), hi - j)>>]
                /\ vw[r].kept.op = "All" =>
                       Yielded(r) = SubSeq(Reversed(vw[r].keptOut), 1, k)

\* On the view from 100 to 150 of the Number without end, All() has yielded
\* the positions 100 to 149 and Backward() the same pairs from 149 down to 100.
C17_Witness ==
    /\ ChainIs("r1", <<<<"WithSignificant", 150>>, <<"WithStart", 100>>>>)
    /\ MantissaLength("r1") = MaxLength
    /\ Read("r1")
    /\ vw["r1"].call = [op |-> "Backward", a |-> 0, b |-> 0, stop |-> 0]
    /\ vw["r1"].kept.op = "All"
    /\ Len(Yielded("r1")) = 50
    /\ Yielded("r1")[1][1] = 149
    /\ Yielded("r1")[50] = vw["r1"].keptOut[1]

(***************************************************************************)
(* The caller's claims.                                                    *)
(***************************************************************************)
RootCall == usr.on /\ usr.call.fn # "NewNumberForTesting"

RootManager(call) ==
    IF call.fn \in {"SqrtBigInt", "SqrtBigRat"} THEN newSqrtManager ELSE newCubeRootManager

\* The closure of the root of num/denom after n calls, or after the call that
\* returned -1 if that comes first.
RECURSIVE RootAfter(_, _)
RootAfter(g, n) ==
    IF n = 0 THEN g
    ELSE The({IF g1.last = -1 THEN g1 ELSE RootAfter(g1, n - 1) : g1 \in {RootDigitsCall(g)}})

\* The digit at position i of the root the call asked for, -1 past its end.
RootDigit(call, i) ==
    IF call.num = 0 THEN -1
    ELSE RootAfter(Generate(call.num, call.denom, RootManager(call)), i + 1).last

(***************************************************************************)
(* C18: a root factory leaves the caller's radicand as the caller wrote    *)
(* it (and the package's one at 1), at the call and while the digits are   *)
(* computed; whatever the caller writes to the radicand after the factory  *)
(* has returned, the Number has the exponent and the digits of the root of *)
(* the radicand it was called with.                                        *)
(***************************************************************************)
C18_RadicandIsCopied ==
    RootCall =>
        /\ \A c \in DOMAIN usr.mem : Content(c) = usr.wrote[c]
        /\ Content("one") = 1
        /\ usr.number.exponent =
               IF usr.call.num = 0 THEN 0
               ELSE Generate(usr.call.num, usr.call.denom, RootManager(usr.call)).exp
        /\ \A r \in Readers :
               th[r].op = "At" /\ th[r].pc = "returned" =>
                   th[r].ret = RootDigit(usr.call, th[r].index)

\* The caller wrote 144 to the radicand 100489 before any digit was computed,
\* and the third digit of the Number, read since, is the 7 of 317.
C18_Witness ==
    /\ RootCall
    /\ usr.call.fn = "SqrtBigInt"
    /\ usr.unread
    /\ Content("radican.num") = 144
    /\ usr.number.exponent = 3
    /\ th["r1"].op = "At" /\ th["r1"].pc = "returned"
    /\ th["r1"].index = 2
    /\ th["r1"].ret = 7

TestingCall == usr.on /\ usr.call.fn = "NewNumberForTesting"

\* The first digit of the mantissa fixed, repeating, repeating, ...
FirstOf(fixed, repeating) == IF fixed # <<>> THEN fixed[1] ELSE repeating[1]

(***************************************************************************)
(* C20: NewNumberForTesting(fixed, repeating, exp) returns the zero Number *)
(* and no error when both lists are empty, whatever exp is; it returns an  *)
(* error and starts no goroutine when a digit is outside 0..9 or the first *)
(* digit of the mantissa would be 0; otherwise it returns a Number with    *)
(* exponent exp (a *FiniteNumber when repeating is empty) whose digit at p *)
(* is fixed[p] for p < len(fixed) and                                      *)
(* repeating[(p - len(fixed)) mod len(repeating)] from there on, the       *)
(* mantissa ending after fixed exactly when repeating is empty; what the   *)
(* caller writes to its slices afterwards changes none of this.            *)
(***************************************************************************)
C20_NewNumberForTesting ==
    TestingCall =>
        LET f  == usr.call.fixed
            rp == usr.call.repeating
        IN  IF f = <<>> /\ rp = <<>>
            THEN /\ fac.out = "zero"
                 /\ usr.number.kind = "zeroNumber"
                 /\ Created = {}
            ELSE IF ~validDigits(f) \/ ~validDigits(rp) \/ FirstOf(f, rp) = 0
            THEN /\ fac.out = "error"
                 /\ usr.number.kind = "nil"
                 /\ Created = {}
                 /\ ctx.active = 0
            ELSE /\ fac.out = "number"
                 /\ usr.number.exponent = usr.call.exp
                 /\ usr.number.kind = IF rp = <<>> THEN "FiniteNumber" ELSE "opqNumber"
                 /\ Created = {usr.number.m}
                 /\ \A r \in Readers :
                        th[r].op = "At" /\ th[r].pc = "returned" /\ th[r].index < MaxLength =>
                            LET p == th[r].index
                            IN  th[r].ret =
                                    IF p < Len(f) THEN f[p + 1]
                                    ELSE IF rp = <<>> THEN -1
                                    ELSE rp[((p - Len(f)) % Len(rp)) + 1]

\* The caller wrote 9, 9, 9 over fixed and 8, 8, 8, 8 over repeating, the
\* first before any digit was computed; the digit at 5, read since, is the
\* third of 0, 0, 3, 4.
C20_Witness ==
    /\ TestingCall
    /\ usr.call.fixed = <<1, 0, 2>>
    /\ usr.unread
    /\ Content("fixed") = <<9, 9, 9>>
    /\ Content("repeating") = <<8, 8, 8, 8>>
    /\ usr.number.exponent = -3
    /\ th["r1"].op = "At" /\ th["r1"].pc = "returned"
    /\ th["r1"].index = 5
    /\ th["r1"].ret = 3

(***************************************************************************)
(* The Generators' specification: a caller that passes one of the tests'   *)
(* Generators to NewNumber on a Context that is not closed, the goroutine  *)
(* of the Number's memoizer and a reader of the Number.                    *)
(***************************************************************************)
Generators ==
    {testgenerator(1, 2, 0), testgenerator(5, 10, 0), testgenerator(10, 5, 3),
     testgenerator(-1, -1, 3), testgenerator(0, 5, 3), testgenerator(3, 0, -2),
     testgenerator(1, -1, 7), badgenerator}

GeneratorAtArgs == {-1, 0, 1, 2, 4, 100}

GeneratorFirstNArgs == {3, 150}

GeneratorNext ==
    \/ \E g \in Generators : GeneratorFactory(g)
    \/ \E m \in MemoIds : WorkerWaitToGrow(m)
    \/ \E m \in MemoIds : WorkerProduce(m)
    \/ \E m \in MemoIds : WorkerCheckClosed(m)
    \/ \E m \in MemoIds : WorkerSetData(m)
    \/ \E m \in MemoIds : WorkerEnd(m)
    \/ \E i \in GeneratorAtArgs : ReaderAt("r1", 1, i)
    \/ \E n \in GeneratorFirstNArgs : ReaderFirstN("r1", 1, n)
    \/ \E t \in Threads : Resume(t)

GeneratorSpec == Init /\ [][GeneratorNext]_vars

(***************************************************************************)
(* C21: NewNumber(g) calls g.Generate once.  When the first value of the   *)
(* closure is 0 or outside 0..9 it returns the zero Number (exponent 0,    *)
(* no memoizer), whatever exponent g gave.  Otherwise the Number has g's   *)
(* exponent and its mantissa is the values the closure yields before the   *)
(* first one outside 0..9: no call of the closure follows that one, also   *)
(* when later calls would yield digits, and every read returns the digits  *)
(* of that mantissa.                                                       *)
(***************************************************************************)
\* Call number q of a testgenerator's closure yields second: q is 2, 5, 9, 14, ...
YieldsSecond(q) == \E j \in 1..q : j * (j + 3) = 2 * q

\* What call number p + 1 of the closure of g's first Generate yields.
GeneratorStream(g, p) ==
    IF g.type = "badgenerator" THEN 1
    ELSE IF YieldsSecond(p + 1) THEN g.second ELSE g.first

\* The exponent g's first Generate returns.
GeneratorExp(g) == IF g.type = "badgenerator" THEN 4 ELSE g.exp

\* The length of the mantissa: the calls before the first value out of range,
\* MaxLength when there is none among the first MaxLength.
MantissaEnd(g) ==
    LET ends == {p \in 0..(MaxLength - 1) : digitOutOfRange(GeneratorStream(g, p))}
    IN  IF ends = {} THEN MaxLength ELSE CHOOSE p \in ends : \A q \in ends : p <= q

GeneratorCall == usr.on /\ usr.call.fn = "NewNumber" /\ "g" \in DOMAIN usr.call

\* data holds the first digits of g's mantissa.
MantissaPrefix(g, data) ==
    /\ Len(data) <= MantissaEnd(g)
    /\ \A k \in 1..Len(data) : data[k] = GeneratorStream(g, k - 1)

C21_NewNumber ==
    GeneratorCall =>
        LET g     == usr.call.g
            first == GeneratorStream(g, 0)
        IN  /\ usr.g.generated = 1
            /\ IF first = 0 \/ digitOutOfRange(first)
               THEN /\ usr.number.kind = "zeroNumber"
                    /\ usr.number.exponent = 0
                    /\ Created = {}
               ELSE /\ usr.number.kind = "opqNumber"
                    /\ usr.number.exponent = GeneratorExp(g)
                    /\ usr.number.m = 1
                    /\ memo[1].iter.next.calls <= MantissaEnd(g) + 1
                    /\ MantissaPrefix(g, memo[1].wdata)
                    /\ MantissaPrefix(g, memo[1].data)
                    /\ memo[1].done => /\ Len(memo[1].data) = MantissaEnd(g)
                                       /\ memo[1].iter.next.calls =
                                              Min(MantissaEnd(g) + 1, MaxLength)
                    /\ (th["r1"].pc = "returned" /\ th["r1"].op = "At") =>
                           th["r1"].ret =
                               IF th["r1"].index < 0 \/ th["r1"].index >= MantissaEnd(g)
                               THEN -1 ELSE GeneratorStream(g, th["r1"].index)
                    /\ (th["r1"].pc = "returned" /\ th["r1"].op = "FirstN") =>
                           /\ Len(th["r1"].out) = Min(th["r1"].limit, MantissaEnd(g))
                           /\ MantissaPrefix(g, th["r1"].out)

\* NewNumber(&testgenerator{first: 5, second: 10}): the closure has yielded 5
\* and 10 and would yield 5 next; the mantissa is 5 for good and At(2) gave -1.
C21_Witness ==
    /\ GeneratorCall
    /\ usr.call.g = testgenerator(5, 10, 0)
    /\ memo[1].done /\ memo[1].data = <<5>>
    /\ memo[1].wpc = "exited"
    /\ memo[1].iter.next.calls = 2
    /\ testgeneratorDigits(memo[1].iter.next).x = 5
    /\ th["r1"].pc = "returned" /\ th["r1"].op = "At"
    /\ th["r1"].index = 2 /\ th["r1"].ret = -1

(***************************************************************************)
(* Formatting.  The writer's text is a sequence of characters.  A          *)
(* formatter is the record of its fields with the text written so far; a   *)
(* formatSpec is the record of its fields.  The mantissa printed is given  *)
(* by the digits its Values() yields: those of a repeating closure, cut at *)
(* limit when the Number is a WithSignificant view (limit < 0: no cut).    *)
(* Integers are the code's int, of the model's width.                      *)
(***************************************************************************)
fPrecision == 6

gPrecision == 16

\* '0' + byte(digit)
DigitChar(d) == <<"0", "1", "2", "3", "4", "5", "6", "7", "8", "9">>[d + 1]

RECURSIVE Zeros(_)
Zeros(n) == IF n <= 0 THEN <<>> ELSE <<"0">> \o Zeros(n - 1)

\* The decimal digits of n >= 0, as fmt writes them.
RECURSIVE Decimal(_)
Decimal(n) ==
    IF n < 10 THEN <<DigitChar(n)>> ELSE Decimal(n \div 10) \o <<DigitChar(n % 10)>>

Sprintfd(e) == (IF e < 0 THEN <<"-">> ELSE <<>>) \o Decimal(IF e < 0 THEN -e ELSE e)

\* fmt.Fprintf(w, "%+03d", exponent): the sign, then the digits zero padded to
\* the width of 3 that counts the sign.
SprintfPlus03d(e) ==
    LET ds == Decimal(IF e < 0 THEN -e ELSE e)
    IN  <<IF e < 0 THEN "-" ELSE "+">> \o Zeros(2 - Len(ds)) \o ds

formatSpecForFIgnoresExponent(precision, exponent) ==
    [sigDigits |-> precision, exactDigitCount |-> TRUE, sci |-> FALSE, capital |-> FALSE]

formatSpecForF(precision, exponent) ==
    [sigDigits |-> WrapInt(precision + exponent), exactDigitCount |-> TRUE,
     sci |-> FALSE, capital |-> FALSE]

bigExponent(exponent) == exponent < -3 \/ exponent > 6

formatSpecForGNeverBig(precision, exponent, capital) ==
    LET sigDigits == IF precision = 0 THEN 1 ELSE precision
    IN  [sigDigits |-> sigDigits, exactDigitCount |-> FALSE,
         sci |-> sigDigits < exponent, capital |-> capital]

formatSpecForG(precision, exponent, capital) ==
    LET sigDigits == IF precision = 0 THEN 1 ELSE precision
    IN  [sigDigits |-> sigDigits, exactDigitCount |-> FALSE,
         sci |-> sigDigits < exponent \/ bigExponent(exponent), capital |-> capital]

formatSpecForE(precision, capital) ==
    [sigDigits |-> precision, exactDigitCount |-> TRUE, sci |-> TRUE, capital |-> capital]

\* newFormatSpec, String and Exact: the formatSpec of a call.  precision is -1
\* when the state has none.
newFormatSpec(verb, precision, exponent) ==
    CASE verb \in {"f", "F"} ->
             formatSpecForF(IF precision < 0 THEN fPrecision ELSE precision, exponent)
      [] verb \in {"g", "G", "v"} ->
             formatSpecForG(IF precision < 0 THEN gPrecision ELSE precision, exponent,
                            verb = "G")
      [] verb \in {"e", "E"} ->
             formatSpecForE(IF precision < 0 THEN fPrecision ELSE precision, verb = "E")
      [] verb = "String" -> formatSpecForG(gPrecision, exponent, FALSE)
      [] verb = "Exact"  -> formatSpecForG(MaxInt, exponent, FALSE)

\* newFormatter: it panics when sigDigits < exponent.
newFormatter(w, sigDigits, exponent, exactDigitCount) ==
    [panic |-> sigDigits < exponent, writer |-> w, sigDigits |-> sigDigits,
     exponent |-> exponent, exactDigitCount |-> exactDigitCount, index |-> 0]

CanConsume(f) == f.index < f.sigDigits

addLeadingZerosAlwaysPoint(f, count) ==
    [f EXCEPT !.writer = @ \o <<"0", ".">> \o Zeros(count)]

\* formatter.addLeadingZeros
addLeadingZeros(f, count) ==
    [f EXCEPT !.writer = @ \o <<"0">> \o
                         (IF count <= 0 THEN <<>> ELSE <<".">> \o Zeros(count))]

\* formatter.add
add(f, digit) ==
    LET f1 == IF f.index = 0 /\ f.exponent <= 0 THEN addLeadingZeros(f, -f.exponent) ELSE f
    IN  [f1 EXCEPT !.writer = @ \o (IF f.index = f.exponent THEN <<".">> ELSE <<>>)
                                \o <<DigitChar(digit)>>,
                   !.index = @ + 1]

\* formatter.Consume
Consume(f, digit) == IF ~CanConsume(f) THEN f ELSE add(f, digit)

\* Finish's loop: for f.index < maxDigits { f.add(0) }
RECURSIVE FinishLoop(_, _)
FinishLoop(f, maxDigits) ==
    IF f.index < maxDigits THEN FinishLoop(add(f, 0), maxDigits) ELSE f

\* formatter.Finish
Finish(f) ==
    LET f1 == FinishLoop(f, IF f.exactDigitCount THEN f.sigDigits ELSE f.exponent)
    IN  IF f1.index = 0
        THEN addLeadingZeros(f1, IF f1.exactDigitCount THEN f1.sigDigits - f1.exponent
                                 ELSE -f1.exponent)
        ELSE f1

\* What call number i + 1 of Values()'s yield gets from the Number n, -1 when
\* Values() has ended: the digits of the closure, up to the view's limit.
ValueAt(n, i) == IF n.limit >= 0 /\ i >= n.limit THEN -1 ELSE StreamAt(n, i)

\* n.Format(state, verb), n.String(), n.Exact(), up to fromMantissa's loop:
\* the formatSpec, and PrintNumber's formatter for the exponent or, in
\* scientific form, for 0.
FormatBegin(n, verb, precision) ==
    /\ fmt.pc = "idle"
    /\ \E fs \in {newFormatSpec(verb, precision, n.exponent)} :
       \E f \in {newFormatter(<<>>, fs.sigDigits, IF fs.sci THEN 0 ELSE n.exponent,
                              fs.exactDigitCount)} :
           fmt' = [pc |-> IF f.panic THEN "panic"
                          ELSE IF CanConsume(f) THEN "consume" ELSE "finish",
                   n |-> n, verb |-> verb, precision |-> precision, fs |-> fs,
                   f |-> f, k |-> 0, w |-> <<>>]
    /\ UNCHANGED <<gen, ctx, memo, th, cl, fac, vw, usr>>

\* One round of fromMantissa's loop over m.Values(): the next digit is
\* consumed, or Values() has ended.
FormatConsume ==
    /\ fmt.pc = "consume"
    /\ \E digit \in {ValueAt(fmt.n, fmt.k)} :
          IF digit < 0
          THEN fmt' = [fmt EXCEPT !.pc = "finish"]
          ELSE \E f \in {Consume(fmt.f, digit)} :
                   fmt' = [fmt EXCEPT !.f = f, !.k = @ + 1,
                                      !.pc = IF CanConsume(f) THEN "consume" ELSE "finish"]
    /\ UNCHANGED <<gen, ctx, memo, th, cl, fac, vw, usr>>

\* printSci, after printFixed(w, m, 0): the separator and the exponent
printSci(f, exponent, sep) == Finish(f).writer \o <<sep>> \o SprintfPlus03d(exponent)

\* formatter.Finish() and the rest of PrintNumber: w is the text written.
FormatFinish ==
    /\ fmt.pc = "finish"
    /\ fmt' = [fmt EXCEPT !.pc = "done",
                          !.f = Finish(fmt.f),
                          !.w = IF fmt.fs.sci
                                THEN printSci(fmt.f, fmt.n.exponent,
                                              IF fmt.fs.capital THEN "E" ELSE "e")
                                ELSE Finish(fmt.f).writer]
    /\ UNCHANGED <<gen, ctx, memo, th, cl, fac, vw, usr>>

(***************************************************************************)
(* The formatting specification: Format with the verbs f, F, g, G, v, e,   *)
(* E and String on the zero Number, on 0.1234567890 1234567890 ... (the    *)
(* tests' fakeNumber), on its WithSignificant(3) and WithSignificant(9)    *)
(* views and on 0.999 and 0.5, with the exponents of the tests, an         *)
(* exponent of three digits and the largest int.                           *)
(***************************************************************************)
FormatExponents == {-5, -4, -3, -1, 0, 1, 3, 5, 6, 7, 10, 173, MaxInt}

FormatNumbers ==
    {[fixed |-> <<>>, repeating |-> <<>>, limit |-> -1, exponent |-> 0]}
    \cup {[fixed |-> <<>>, repeating |-> <<1, 2, 3, 4, 5, 6, 7, 8, 9, 0>>,
           limit |-> l, exponent |-> e] : l \in {-1, 3, 9}, e \in FormatExponents}
    \cup {[fixed |-> d, repeating |-> <<>>, limit |-> -1, exponent |-> e] :
              d \in {<<9, 9, 9>>, <<5>>}, e \in FormatExponents}

FormatVerbs == {"f", "F", "g", "G", "v", "e", "E", "String"}

\* -1: the state has no precision; String() takes none.
FormatPrecisions == {-1, 0, 1, 3, 5, 10}

FormatNext ==
    \/ \E n \in FormatNumbers, verb \in FormatVerbs, precision \in FormatPrecisions :
           /\ verb = "String" => precision = -1
           /\ FormatBegin(n, verb, precision)
    \/ FormatConsume
    \/ FormatFinish

FormatSpec == Init /\ [][FormatNext]_vars

(***************************************************************************)
(* What a rendering shows.  The mantissa of the Number printed is          *)
(* 0.d1 d2 ... dN; MantissaDigit is d_k, 0 at the positions past N.        *)
(***************************************************************************)
MantissaDigit(n, k) == IF k >= 1 /\ ValueAt(n, k - 1) >= 0 THEN ValueAt(n, k - 1) ELSE 0

\* min(N, s): how many of the first s positions hold a digit.
Shown(n, s) == Cardinality({k \in 1..s : ValueAt(n, k - 1) >= 0})

\* The precision of the call: the state's, or the verb's default.
PrecisionOf(verb, precision) ==
    IF precision >= 0 THEN precision
    ELSE IF verb \in {"g", "G", "v", "String"} THEN 16 ELSE 6

\* The digits d_lo .. d_hi as text.
DigitText(n, lo, hi) == [k \in 1..(hi - lo + 1) |-> DigitChar(MantissaDigit(n, lo + k - 1))]

\* The integer part: d1 .. dE when E > 0, else 0.
IntegerPart(n) == IF n.exponent > 0 THEN DigitText(n, 1, n.exponent) ELSE <<"0">>

\* The truncated decimal expansion with p digits after the point.
FixedText(n, p) ==
    IntegerPart(n) \o
    (IF p = 0 THEN <<>> ELSE <<".">> \o DigitText(n, n.exponent + 1, n.exponent + p))

FixedCall == fmt.pc # "idle" /\ fmt.verb \in {"f", "F"}

(***************************************************************************)
(* C23: a Format call with verb f or F and precision P writes the integer  *)
(* part d1 .. dE (0 when E <= 0), then, when P > 0, the point and exactly  *)
(* the P digits d(E+1) .. d(E+P), each the mantissa's own digit and 0 past *)
(* the mantissa's end: whatever the exponent, the call does not panic and  *)
(* what it has written when it returns is that text.                       *)
(***************************************************************************)
C23_FixedForm ==
    FixedCall =>
        /\ fmt.pc # "panic"
        /\ fmt.pc = "done" =>
               fmt.w = FixedText(fmt.n, PrecisionOf(fmt.verb, fmt.precision))

\* The same for the calls in which precision + exponent is an int.
C23_FixedFormWithinInt ==
    (FixedCall /\ PrecisionOf(fmt.verb, fmt.precision) + fmt.n.exponent <= MaxInt) =>
        /\ fmt.pc # "panic"
        /\ fmt.pc = "done" =>
               fmt.w = FixedText(fmt.n, PrecisionOf(fmt.verb, fmt.precision))

\* %.5f of fakeNumber with exponent -5 wrote 0.00000.
C23_Witness ==
    /\ fmt.pc = "done" /\ fmt.verb = "f" /\ fmt.precision = 5
    /\ fmt.n.exponent = -5 /\ fmt.n.repeating # <<>>
    /\ fmt.w = <<"0", ".", "0", "0", "0", "0", "0">>

GeneralCall == fmt.pc # "idle" /\ fmt.verb \in {"g", "G", "v", "String"}

\* S = max(P, 1)
Significant(verb, precision) == Max(PrecisionOf(verb, precision), 1)

\* The claim's test for the scientific form.
Scientific(s, e) == s < e \/ e < -3 \/ e > 6

\* The fixed form that shows the first `shown' digits of the mantissa and
\* pads with 0 up to the end of the integer part only.
GeneralText(n, shown) ==
    IF n.exponent > 0
    THEN IntegerPart(n) \o
         (IF shown > n.exponent
          THEN <<".">> \o DigitText(n, n.exponent + 1, shown) ELSE <<>>)
    ELSE IF shown = 0 THEN <<"0">>
    ELSE <<"0", ".">> \o Zeros(-n.exponent) \o DigitText(n, 1, shown)

\* The separator of the verb.
Separator(verb) == IF verb \in {"E", "G"} THEN "E" ELSE "e"

(***************************************************************************)
(* C24: a Format call with verb g, G or v, or String() (g with precision   *)
(* 16), with S = max(P, 1): the text has the separator e or E exactly when *)
(* S < E or E < -3 or E > 6; otherwise it is the fixed form of the first   *)
(* min(N, S) digits of the mantissa, padded with 0 only up to the end of   *)
(* the E integer digits.                                                   *)
(***************************************************************************)
C24_GeneralForm ==
    GeneralCall =>
        /\ fmt.pc # "panic"
        /\ fmt.pc = "done" =>
               LET s == Significant(fmt.verb, fmt.precision)
               IN  /\ (\E k \in 1..Len(fmt.w) : fmt.w[k] \in {"e", "E"})
                          <=> Scientific(s, fmt.n.exponent)
                   /\ ~Scientific(s, fmt.n.exponent) =>
                          fmt.w = GeneralText(fmt.n, Shown(fmt.n, s))

\* %.5g of the WithSignificant(3) view of fakeNumber with exponent 5 wrote 12300.
C24_Witness ==
    /\ fmt.pc = "done" /\ fmt.verb = "g" /\ fmt.precision = 5
    /\ fmt.n.exponent = 5 /\ fmt.n.limit = 3
    /\ fmt.w = <<"1", "2", "3", "0", "0">>

SciCall ==
    /\ fmt.pc # "idle"
    /\ \/ fmt.verb \in {"e", "E"}
       \/ /\ fmt.verb \in {"g", "G", "v", "String"}
          /\ Scientific(Significant(fmt.verb, fmt.precision), fmt.n.exponent)

\* The digit a character writes.
CharDigit(c) == CHOOSE d \in 0..9 : DigitChar(d) = c

\* The mantissa of the scientific form: the fixed form for exponent 0 of the
\* digits shown.
SciMantissa(n, shown) ==
    IF shown = 0 THEN <<"0">> ELSE <<"0", ".">> \o DigitText(n, 1, shown)

\* t is e written with its sign and two digits at least.
SignedExponent(t, e) ==
    /\ Len(t) >= 3
    /\ t[1] = IF e < 0 THEN "-" ELSE "+"
    /\ \A k \in 2..Len(t) : t[k] \in {DigitChar(d) : d \in 0..9}
    /\ Len(t) > 3 => t[2] # "0"
    /\ DigitsValue([k \in 1..(Len(t) - 1) |-> CharDigit(t[k + 1])]) =
           IF e < 0 THEN -e ELSE e

(***************************************************************************)
(* C25: the scientific form (verbs e and E, and g, G, v, String when they  *)
(* select it) is the fixed form of the mantissa for exponent 0, "0."       *)
(* and the digits shown or "0" alone when none is, then the separator,     *)
(* then the Number's exponent with its sign and at least two digits.  For  *)
(* e and E the digits shown are exactly P, padded with 0; for the general  *)
(* verbs they are the first min(N, S).                                     *)
(***************************************************************************)
C25_ScientificForm ==
    SciCall =>
        /\ fmt.pc # "panic"
        /\ fmt.pc = "done" =>
               LET m == SciMantissa(fmt.n,
                            IF fmt.verb \in {"e", "E"}
                            THEN PrecisionOf(fmt.verb, fmt.precision)
                            ELSE Shown(fmt.n, Significant(fmt.verb, fmt.precision)))
               IN  /\ Len(fmt.w) >= Len(m) + 4
                   /\ SubSeq(fmt.w, 1, Len(m)) = m
                   /\ fmt.w[Len(m) + 1] = Separator(fmt.verb)
                   /\ SignedExponent(SubSeq(fmt.w, Len(m) + 2, Len(fmt.w)), fmt.n.exponent)

\* %.5E of the WithSignificant(3) view of fakeNumber with exponent -4 wrote
\* 0.12300E-04.
C25_Witness ==
    /\ fmt.pc = "done" /\ fmt.verb = "E" /\ fmt.precision = 5
    /\ fmt.n.exponent = -4 /\ fmt.n.limit = 3
    /\ fmt.w = <<"0", ".", "1", "2", "3", "0", "0", "E", "-", "0", "4">>

(***************************************************************************)
(* withExponent and String on a view.                                      *)
(***************************************************************************)
FiniteNumberWithExponentOfZero(h, n, e) ==
    IF e = h[n].exponent THEN Same(h, n)
    ELSE Alloc(h, NewFiniteNumberObject(h[n].mantissa, e))

\* (*FiniteNumber).withExponent
FiniteNumberWithExponent(h, n, e) ==
    IF e = h[n].exponent \/ h[n].mantissa = NilSpec THEN Same(h, n)
    ELSE Alloc(h, NewFiniteNumberObject(h[n].mantissa, e))

\* (*opqNumber).withExponent
opqNumberWithExponent(h, p, e) ==
    LET result == FiniteNumberWithExponent(h, h[p].inner, e)
    IN  IF result.p = h[p].inner THEN Same(result.h, p)
        ELSE opaqueNumber(result.h, result.p)

\* n.withExponent(e), by the type of the Number
withExponent(h, p, e) ==
    IF IsOpaque(h, p) THEN opqNumberWithExponent(h, p, e)
    ELSE FiniteNumberWithExponent(h, p, e)

\* v := v.withExponent(e)
ViewWithExponent(r, e, depth) ==
    /\ CanUse(r)
    /\ Len(vw[r].chain) - vw[r].given < depth
    /\ IsNumber(vw[r].h, vw[r].cur)
    /\ Applied(r, "withExponent", e, withExponent(vw[r].h, vw[r].cur, e))
    /\ UNCHANGED <<fmt, gen, ctx, memo, cl, fac, usr>>

\* v.String(): formatSpecForG(gPrecision, n.exponent, false) and PrintNumber;
\* fromMantissa ranges over n.mantissa.Values() and returns from the loop
\* after the digit that fills the formatter.
ViewString(r) ==
    /\ CanUse(r)
    /\ IsNumber(vw[r].h, vw[r].cur)
    /\ \E fs \in {newFormatSpec("String", -1, Exponent(vw[r].h, vw[r].cur))} :
          Scanned(r, mantissaScan(vw[r].h, MantissaOf(vw[r].h, vw[r].cur), 0),
                  fs.sigDigits)
    /\ Called(r, "String", 0, 0, 0, FALSE)
    /\ UNCHANGED <<fmt, gen, ctx, cl, fac, usr>>

\* The formatter after fromMantissa's loop over the digits Values() yielded.
RECURSIVE ConsumeAll(_, _)
ConsumeAll(f, digits) ==
    IF digits = <<>> THEN f ELSE ConsumeAll(Consume(f, Head(digits)), Tail(digits))

\* PrintNumber: the text for the digits Values() yielded.
PrintNumber(fs, exponent, digits) ==
    LET f == ConsumeAll(newFormatter(<<>>, fs.sigDigits, IF fs.sci THEN 0 ELSE exponent,
                                     fs.exactDigitCount), digits)
    IN  IF fs.sci THEN printSci(f, exponent, IF fs.capital THEN "E" ELSE "e")
        ELSE Finish(f).writer

\* What v.String() returned.
StringResult(r) ==
    PrintNumber(newFormatSpec("String", -1, Exponent(vw[r].h, vw[r].cur)),
                Exponent(vw[r].h, vw[r].cur), th[r].out)

(***************************************************************************)
(* The zero Numbers' specification: a Number a factory returned (the zero  *)
(* Number, *FiniteNumbers, opqNumbers), a reader that applies up to        *)
(* MaxZeroChain of WithSignificant, WithEnd, WithStart(s <= 0) and         *)
(* withExponent to it and reads the result, the goroutine of the memoizer, *)
(* and a thread that closes the Context.                                   *)
(***************************************************************************)
MaxZeroChain == 2

ZeroLimits == {0, 2}

ZeroEnds == {0, 1}

ZeroStarts == {-1}

ZeroExponents == {5}

ZeroNext ==
    \/ \E m \in MemoIds : WorkerWaitToGrow(m)
    \/ \E m \in MemoIds : WorkerProduce(m)
    \/ \E m \in MemoIds : WorkerCheckClosed(m)
    \/ \E m \in MemoIds : WorkerSetData(m)
    \/ \E m \in MemoIds : WorkerEnd(m)
    \/ \E s \in ZeroStarts : ViewWithStart("r1", s, MaxZeroChain)
    \/ \E e \in ZeroEnds : ViewWithEnd("r1", e, MaxZeroChain)
    \/ \E l \in ZeroLimits : ViewWithSignificant("r1", l, MaxZeroChain)
    \/ \E e \in ZeroExponents : ViewWithExponent("r1", e, MaxZeroChain)
    \/ ViewAt("r1", 0)
    \/ ViewAll("r1", 0)
    \/ ViewValues("r1", 0)
    \/ ViewBackward("r1", 0)
    \/ ViewString("r1")
    \/ \E r \in Readers : ScanWaitAgain(r)
    \/ \E t \in Threads : Resume(t)
    \/ CloseBegin
    \/ CloseDrain
    \/ CloseEnd

ZeroSpec == ViewInit /\ [][ZeroNext]_vars

(***************************************************************************)
(* C22: every Number made of a factory's Number by WithSignificant,        *)
(* WithEnd, WithStart(s <= 0) and withExponent is a Number still; it is    *)
(* zero exactly when At(0) returns -1, a zero Number has exponent 0, its   *)
(* All(), Values() and Backward() yield nothing and its String() is "0",   *)
(* and At(0) of a Number that is not zero is in 1..9: before, while and    *)
(* after the Context is closed.                                            *)
(***************************************************************************)
C22_ZeroInvariant ==
    vw["r1"].on =>
        LET h == vw["r1"].h
            p == vw["r1"].cur
        IN  /\ IsNumber(h, p)
            /\ IsZero(h, p) => Exponent(h, p) = 0
            /\ (Read("r1") /\ vw["r1"].call.op = "At") =>
                   /\ IsZero(h, p) <=> AtResult("r1") = -1
                   /\ ~IsZero(h, p) => AtResult("r1") \in 1..9
            /\ (Read("r1") /\ IsZero(h, p)) =>
                   /\ vw["r1"].call.op \in {"All", "Values", "Backward"} =>
                          Yielded("r1") = <<>>
                   /\ vw["r1"].call.op = "String" => StringResult("r1") = <<"0">>

\* Sqrt-like Number 0.317e3, cut to zero by WithEnd(0) and given the exponent
\* 5: it is zeroNumber, its exponent is 0 and String() returned 0.
C22_Witness ==
    /\ vw["r1"].on
    /\ vw["r1"].chain = <<<<"WithEnd", 0>>, <<"withExponent", 5>>>>
    /\ Exponent(vw["r1"].h, vw["r1"].base) = 3
    /\ vw["r1"].cur = zeroNumber
    /\ Read("r1") /\ vw["r1"].call.op = "String"
    /\ StringResult("r1") = <<"0">>

(***************************************************************************)
(* The types' specification: a caller that calls one factory, takes the    *)
(* Number it returned and applies up to MaxTypeChain view operations to    *)
(* it.  Neither the factories nor the operations compute a digit.          *)
(***************************************************************************)
\* The Number a factory returned, as the object the caller holds:
\* zeroNumber, c.newFiniteNumber(digits, exp), or c.newNumber(digits, exp),
\* which is opaqueNumber(c.newFiniteNumber(digits, exp)).
NumberView(number) ==
    IF number.kind = "zeroNumber" THEN NewView(ZeroArena, zeroNumber)
    ELSE LET n == Alloc(ZeroArena, NewFiniteNumberObject(memoizerRef(number.m),
                                                          number.exponent))
             o == opaqueNumber(n.h, n.p)
         IN  IF number.kind = "opqNumber" THEN NewView(o.h, o.p) ELSE NewView(n.h, n.p)

\* n := the Number the factory returned (no Number comes with an error)
ViewTake(r) ==
    /\ usr.on
    /\ ~vw[r].on
    /\ usr.number.kind # "nil"
    /\ vw' = [vw EXCEPT ![r] = NumberView(usr.number)]
    /\ UNCHANGED <<fmt, gen, ctx, memo, th, cl, fac, usr>>

MaxTypeChain == 3

TypeStarts == {0, 2}

TypeEnds == {0, 2}

TypeLimits == {2}

TypeExponents == {5}

TypeNext ==
    \/ \E c \in CallerCalls : CallerFactory(c)
    \/ \E g \in Generators : GeneratorFactory(g)
    \/ ViewTake("r1")
    \/ \E s \in TypeStarts : ViewWithStart("r1", s, MaxTypeChain)
    \/ \E e \in TypeEnds : ViewWithEnd("r1", e, MaxTypeChain)
    \/ \E l \in TypeLimits : ViewWithSignificant("r1", l, MaxTypeChain)
    \/ \E e \in TypeExponents : ViewWithExponent("r1", e, MaxTypeChain)

TypeSpec == Init /\ [][TypeNext]_vars

\* The factory call is one of Sqrt*, CubeRoot*, NewNumber, or
\* NewNumberForTesting with repeating digits, and it returned a Number.
InfiniteFactory ==
    /\ usr.on
    /\ usr.number.kind # "nil"
    /\ \/ usr.call.fn \in {"SqrtBigInt", "SqrtBigRat", "CubeRootBigInt", "CubeRootBigRat",
                           "NewNumber"}
       \/ usr.call.fn = "NewNumberForTesting" /\ usr.call.repeating # <<>>

\* The object can be used as a FiniteSequence (a *FiniteNumber as a
\* *FiniteNumber too): it is not inside an opqNumber or an opqSequence.
Finite(h, p) == IsFiniteSequence(h, p)

\* The operations of the chain are all among ops.
ChainOf(r, ops) == \A k \in 1..Len(vw[r].chain) : vw[r].chain[k][1] \in ops

(***************************************************************************)
(* C26, as claimed: the Number that Sqrt*, CubeRoot*, NewNumber or         *)
(* NewNumberForTesting with repeating digits returned, and every view of   *)
(* it by WithStart and withExponent, cannot be used as a *FiniteNumber or  *)
(* a FiniteSequence.                                                       *)
(***************************************************************************)
C26_FactoriesNeverFinite ==
    (InfiniteFactory /\ vw["r1"].on /\ ChainOf("r1", {"WithStart", "withExponent"})) =>
        ~Finite(vw["r1"].h, vw["r1"].cur)

(***************************************************************************)
(* C26, amended: the same for the Numbers that are not zero; the zero      *)
(* Number, which these factories return for a radicand of 0 and for a      *)
(* Generator that starts with 0 or a value out of range, is a              *)
(* *FiniteNumber.  A view that can be used as a finite type is the zero    *)
(* Number, comes from NewFiniteNumber or NewNumberForTesting without       *)
(* repeating digits, or has WithSignificant or WithEnd in its chain; and   *)
(* WithStart of a finite view is finite.                                   *)
(***************************************************************************)
C26_FinitenessTyping ==
    vw["r1"].on =>
        LET h    == vw["r1"].h
            base == vw["r1"].base
        IN  /\ InfiniteFactory =>
                   Finite(h, base) <=> usr.number.kind = "zeroNumber"
            /\ (~Finite(h, base) /\ ChainOf("r1", {"WithStart", "withExponent"})) =>
                   ~Finite(h, vw["r1"].cur)
            /\ Finite(h, vw["r1"].cur) =>
                   \/ Finite(h, base)
                   \/ ~ChainOf("r1", {"WithStart", "withExponent"})
            /\ (~InfiniteFactory /\ usr.call.fn = "NewNumberForTesting") => Finite(h, base)
            /\ (vw["r1"].chain # <<>> /\ LastOp("r1")[1] \in {"WithSignificant", "WithEnd"}) =>
                   Finite(h, vw["r1"].cur)
            /\ (vw["r1"].chain # <<>> /\ LastOp("r1")[1] = "WithStart"
                    /\ Finite(h, vw["r1"].prev)) => Finite(h, vw["r1"].cur)

\* SqrtBigRat(9/4).WithStart(2).withExponent is no call a Sequence has; the
\* witness is SqrtBigRat(9/4).withExponent(5).WithStart(2).WithStart(0): an
\* opqSequence, not finite.
C26_Witness ==
    /\ vw["r1"].on
    /\ usr.call.fn = "SqrtBigRat"
    /\ vw["r1"].chain = <<<<"withExponent", 5>>, <<"WithStart", 2>>, <<"WithStart", 0>>>>
    /\ vw["r1"].h[vw["r1"].cur].type = "opqSequence"
    /\ ~Finite(vw["r1"].h, vw["r1"].cur)

(***************************************************************************)
(* C27: a memoizer's len(data), and the digits run() holds, never exceed   *)
(* maxLength; maxLength is a multiple of kMemoizerChunkSize and never      *)
(* decreases; run() is in its inner loop only while len(data) < maxLength; *)
(* while no wait has raised maxLength, run() has called iter for no digit; *)
(* and maxLength rises only in a wait(i) with maxLength <= i, to at most   *)
(* kMemoizerChunkSize * (i / kMemoizerChunkSize + 1), so that no more      *)
(* digits than that are produced for reads up to position i.               *)
(***************************************************************************)
\* The digits run() has taken from iter, published or not.
Produced(m) == Len(memo[m].wdata)

GrowthBounded(m) ==
    /\ Len(memo[m].data) <= memo[m].maxLength
    /\ Produced(m) <= memo[m].maxLength
    /\ memo[m].maxLength % kMemoizerChunkSize = 0
    /\ memo[m].wpc = "produce" => Len(memo[m].data) < memo[m].maxLength
    /\ memo[m].maxLength = 0 =>
           /\ Produced(m) = 0
           /\ memo[m].wpc \in {"waitToGrow", "growWait"}

\* maxLength changes in this step: a thread is in wait(i) for an i that the
\* old maxLength did not exceed, and the new one is the target of i.
GrowthOnDemand(m) ==
    /\ memo'[m].maxLength >= memo[m].maxLength
    /\ memo'[m].maxLength # memo[m].maxLength =>
           \E t \in Threads :
               /\ th'[t] # th[t]
               /\ th'[t].pc = "suspended"
               /\ th'[t].m = m
               /\ memo[m].maxLength <= WaitIndex(th'[t])
               /\ memo'[m].maxLength <=
                      kMemoizerChunkSize * (WaitIndex(th'[t]) \div kMemoizerChunkSize + 1)

C27_DemandDrivenGrowth ==
    /\ [](\A m \in MemoIds : memo[m].created => GrowthBounded(m))
    /\ [][\A m \in MemoIds : memo[m].created => GrowthOnDemand(m)]_vars

\* At(100) has returned a digit of the second chunk: maxLength is 200 and
\* run() has produced 200 digits, no more.
C27_Witness ==
    /\ th["r1"].op = "At"
    /\ th["r1"].index = 100
    /\ th["r1"].pc = "returned"
    /\ th["r1"].ret >= 0
    /\ memo[1].maxLength = 2 * kMemoizerChunkSize
    /\ Produced(1) = 2 * kMemoizerChunkSize
    /\ ~memo[1].done

(***************************************************************************)
(* The growth target's specification: one reader that calls At(i) for      *)
(* every i of 0 .. MaxInt and FirstN(MaxInt) on a memoizer of a Context    *)
(* that is not closed, and the memoizer's goroutine.                       *)
(***************************************************************************)
TargetAtArgs == 0..MaxInt

TargetFirstNArgs == {1, MaxInt}

TargetNext ==
    \/ \E m \in MemoIds : WorkerWaitToGrow(m)
    \/ \E m \in MemoIds : WorkerProduce(m)
    \/ \E m \in MemoIds : WorkerCheckClosed(m)
    \/ \E m \in MemoIds : WorkerSetData(m)
    \/ \E m \in MemoIds : WorkerEnd(m)
    \/ \E i \in TargetAtArgs : ReaderAt("r1", 1, i)
    \/ \E n \in TargetFirstNArgs : ReaderFirstN("r1", 1, n)
    \/ Resume("r1")

TargetSpec == MemoInit /\ [][TargetNext]_vars

\* Thread t calls wait in this step, with the index WaitIndex(th'[t]).
CallsWait(t) ==
    /\ th[t].pc \in {"idle", "returned"}
    /\ th'[t] # th[t]
    /\ th'[t].op \in {"At", "FirstN"}
    /\ WaitIndex(th'[t]) >= 0

\* The mantissa of memoizer m: the values of its iter before the first one
\* out of range, kMaxChunks chunks at most.
MantissaUpTo(it, n) ==
    LET Ends(j) == digitOutOfRange(StreamAt(it, j))
        len     == IF \E j \in 0..(n - 1) : Ends(j)
                   THEN CHOOSE j \in 0..(n - 1) : Ends(j) /\ \A i \in 0..(j - 1) : ~Ends(i)
                   ELSE n
    IN  [p \in 1..len |-> StreamAt(it, p - 1)]

(***************************************************************************)
(* C28: for every index i of 0 .. MaxInt, wait(i) on a memoizer that is    *)
(* not done and has maxLength <= i sets maxLength to                       *)
(* kMemoizerChunkSize * min(i / kMemoizerChunkSize + 1, kMaxChunks), a     *)
(* value within 1 .. MaxInt that int arithmetic does not wrap; and         *)
(* At(MaxInt) returns -1 and FirstN(MaxInt) returns all the digits of the  *)
(* mantissa.                                                               *)
(***************************************************************************)
C28_GrowthTarget ==
    /\ [][CallsWait("r1") =>
              LET i == WaitIndex(th'["r1"])
              IN  (i <= MaxInt /\ ~memo[1].done /\ memo[1].maxLength <= i) =>
                      /\ memo'[1].maxLength =
                             kMemoizerChunkSize *
                                 Min(i \div kMemoizerChunkSize + 1, kMaxChunks)
                      /\ memo'[1].maxLength > 0
                      /\ memo'[1].maxLength <= MaxInt]_vars
    /\ [](th["r1"].pc = "returned" =>
              /\ (th["r1"].op = "At" /\ th["r1"].index = MaxInt) => th["r1"].ret = -1
              /\ (th["r1"].op = "FirstN" /\ th["r1"].limit = MaxInt) =>
                     th["r1"].out = MantissaUpTo(memo[1].iter, MaxLength))

\* At(MaxInt) on the mantissa of 200 digits has raised maxLength from 100 to
\* the cap, and has returned -1 after the second chunk.
C28_Witness ==
    /\ th["r1"].pc = "returned"
    /\ th["r1"].op = "At"
    /\ th["r1"].index = MaxInt
    /\ th["r1"].ret = -1
    /\ Len(memo[1].iter.fixed) = 200
    /\ memo[1].maxLength = kMemoizerChunkSize * kMaxChunks
    /\ Len(memo[1].data) = 200

(***************************************************************************)
(* C29: once the Context is closed, run() appends at most one chunk of     *)
(* further digits; a closed check that observes the flag is followed by    *)
(* setData(data, true) and the return of run(), never by a done of false;  *)
(* and with fair scheduling every goroutine of the Context publishes done  *)
(* and ends.                                                               *)
(***************************************************************************)
\* The digits run() may still append once the Context is closed: none when
\* its next step is the closed check, setData(data, true) or the return; one
\* chunk when it is before the inner loop of a round, which it also is when
\* its closed check came before the flag was set and the outer loop goes on.
MayStillAppend(m) ==
    CASE memo[m].wpc \in {"waitToGrow", "growWait", "produce"} -> kMemoizerChunkSize
      [] memo[m].wpc = "setData" /\ ~memo[m].wdone /\ memo[m].wi + 1 < kMaxChunks ->
             kMemoizerChunkSize
      [] OTHER -> 0

\* While the Context is closed, the digits run() has and the digits it may
\* still append do not increase: from the state in which the flag is set,
\* run() appends at most what it may still append there.
AtMostOneChunk(m) ==
    ctx.closed =>
        Produced(m)' + MayStillAppend(m)' <= Produced(m) + MayStillAppend(m)

\* The closed check that observes the flag, and what follows it.
ClosedCheckEnds(m) ==
    /\ (memo[m].wpc = "checkClosed" /\ ctx.closed /\ memo'[m].wpc # "checkClosed") =>
           memo'[m].wpc = "setData" /\ memo'[m].wdone
    /\ (memo[m].wpc = "setData" /\ memo[m].wdone /\ memo'[m].wpc # "setData") =>
           memo'[m].done /\ memo'[m].wpc = "end" /\ memo'[m].data = memo[m].wdata
    /\ memo[m].done => memo'[m].done
    /\ memo[m].wpc \in {"end", "exited"} =>
           memo'[m].wpc \in {"end", "exited"} /\ memo'[m].wdata = memo[m].wdata

C29_LazyTermination ==
    /\ [][\A m \in MemoIds : memo[m].created => AtMostOneChunk(m) /\ ClosedCheckEnds(m)]_vars
    /\ \A m \in MemoIds :
           (ctx.closed /\ memo[m].created) ~> (memo[m].done /\ memo[m].wpc = "exited")

\* The Context is closed and the goroutine of a Number without end has seen
\* the flag after its first chunk: it is about to publish done.
C29_Witness ==
    \E m \in MemoIds :
        /\ ctx.closed
        /\ memo[m].created
        /\ memo[m].iter.kind = "repeating"
        /\ memo[m].iter.repeating # <<>>
        /\ memo[m].wpc = "setData"
        /\ memo[m].wdone
        /\ memo[m].wi = 0
        /\ Produced(m) = kMemoizerChunkSize
        /\ ~memo[m].done

(***************************************************************************)
(* C30: while the closed flag of a Context is set no memoizer is created   *)
(* and no goroutine is started on it, whatever factory calls come while    *)
(* Close runs or after it; and when Close has returned c.specs is empty    *)
(* and every memoizer the Context made has done = true.                    *)
(***************************************************************************)
NoCreationOnceClosed ==
    ctx.closed =>
        /\ \A m \in MemoIds : memo'[m].created <=> memo[m].created
        /\ \A m \in MemoIds : memo[m].wpc = "none" => memo'[m].wpc = "none"
        /\ ctx'.active <= ctx.active
        /\ Len(ctx'.specs) <= Len(ctx.specs)

CloseLeavesNothing ==
    cl.pc = "returned" =>
        /\ ctx.closed
        /\ ctx.specs = <<>>
        /\ \A m \in Created : memo[m].done

C30_CreationAndCloseSerialized ==
    /\ [][NoCreationOnceClosed]_vars
    /\ []CloseLeavesNothing

\* Close has returned on a Context that had made two Numbers, both are done,
\* and the factory call that came after the flag was set has made no third.
C30_Witness ==
    /\ cl.pc = "returned"
    /\ Cardinality(Created) = 2
    /\ \A m \in Created : memo[m].done
    /\ ctx.specs = <<>>
    /\ fac.afterClose
    /\ fac.call.fn = "NewNumberForTesting"
    /\ fac.out = "panic: Context closed"

(***************************************************************************)
(* C31: the active counter of a Context is the number of memoizers made on *)
(* it less the number of their goroutines that have returned, and is never *)
(* negative; it is incremented in the step that creates the memoizer,      *)
(* before run() takes a step; and run() decrements it once, when it        *)
(* returns, whether it returns at the end of the mantissa, on a closed     *)
(* Context or after kMaxChunks chunks.                                     *)
(***************************************************************************)
\* The memoizers whose run() has returned.
Finished == {m \in MemoIds : memo[m].wpc = "exited"}

ActiveCounts ==
    /\ ctx.active = Cardinality(Created) - Cardinality(Finished)
    /\ ctx.active >= 0
    /\ \A m \in MemoIds : memo[m].created <=> memo[m].wpc # "none"

StartAndEndOnce(m) ==
    /\ (memo'[m].created /\ ~memo[m].created) =>
           /\ ctx'.active = ctx.active + 1
           /\ memo'[m].wpc = "waitToGrow"
           /\ memo'[m].wdata = <<>>
    /\ (memo'[m].wpc = "exited" /\ memo[m].wpc # "exited") =>
           /\ memo[m].wpc = "end"
           /\ memo[m].done
           /\ ctx'.active = ctx.active - 1
    /\ memo[m].wpc = "exited" => memo'[m].wpc = "exited"
    /\ (memo'[m].wpc = memo[m].wpc /\ memo'[m].created = memo[m].created
            /\ \A o \in MemoIds \ {m} :
                   memo'[o].wpc = memo[o].wpc /\ memo'[o].created = memo[o].created) =>
           ctx'.active = ctx.active

C31_WorkerAccounting ==
    /\ []ActiveCounts
    /\ [][\A m \in MemoIds : StartAndEndOnce(m)]_vars

\* On an open Context the goroutine of the root 317 has returned at the end
\* of the mantissa and that of a Number without end after kMaxChunks chunks:
\* the counter is back to 0.
C31_Witness ==
    /\ ~ctx.closed
    /\ Cardinality(Created) = 2
    /\ Finished = Created
    /\ ctx.active = 0
    /\ \E m \in Created : Len(memo[m].data) = MaxLength
    /\ \E m \in Created : Len(memo[m].data) = 3

\* The Context is closed and a goroutine that has produced one chunk of a
\* Number without end has returned.
C31_ClosedExit ==
    \E m \in Finished : ctx.closed /\ Len(memo[m].data) = kMemoizerChunkSize

(***************************************************************************)
(* C32: iter is called by run() alone, of which a memoizer has one: in its *)
(* inner loop, not in a step of a reader or of Close.  When run() is about *)
(* to call iter, every call so far has returned a digit (each round so far *)
(* has appended a whole chunk) and done is not published; after a value    *)
(* out of range, and after done = true, iter is called no more and its     *)
(* state stays.                                                            *)
(***************************************************************************)
\* run() is in its inner loop: its next step calls iter.
CallsIter(m) == memo[m].wpc = "produce"

\* run() has had a value out of range from iter.
IterEnded(m) ==
    /\ memo[m].wpc \in {"setData", "end", "exited"}
    /\ Produced(m) < kMemoizerChunkSize * (memo[m].wi + 1)
    /\ Produced(m) < MaxLength

CallsOnlyForDigits(m) ==
    CallsIter(m) =>
        /\ ~memo[m].done
        /\ ~memo[m].wdone
        /\ Produced(m) = kMemoizerChunkSize * memo[m].wi
        /\ \A k \in 1..Produced(m) : ~digitOutOfRange(memo[m].wdata[k])
        /\ memo[m].data = memo[m].wdata

OnlyRunCallsIter(m) ==
    /\ memo'[m].iter # memo[m].iter => CallsIter(m) /\ th' = th /\ cl' = cl
    /\ (CallsIter(m) /\ ~CallsIter(m)') => th' = th /\ cl' = cl
    /\ (~CallsIter(m) /\ CallsIter(m)') =>
           memo[m].wpc = "waitToGrow" /\ th' = th /\ cl' = cl
    /\ (IterEnded(m) \/ memo[m].done) =>
           /\ memo'[m].iter = memo[m].iter
           /\ memo'[m].wdata = memo[m].wdata
           /\ memo'[m].wpc \in {"setData", "end", "exited"}

C32_SingleProducer ==
    /\ [](\A m \in MemoIds : memo[m].created => CallsOnlyForDigits(m))
    /\ [][\A m \in MemoIds : memo[m].created => OnlyRunCallsIter(m)]_vars

\* iter has returned -1 after 101 digits, in the second chunk, done is
\* published, and a reader asks for position 200: run() has returned.
C32_Witness ==
    /\ Len(memo[1].iter.fixed) = 101
    /\ memo[1].done
    /\ Len(memo[1].data) = 101
    /\ memo[1].wpc = "exited"
    /\ \E r \in Readers : th[r].op = "At" /\ th[r].index = 200 /\ th[r].pc = "returned"

(***************************************************************************)
(* The digit loop's specification: the closure computeRootDigits returns,  *)
(* step by step.  gen holds the radicand, the state g of the closure and   *)
(* of the groups closure, and the call in progress: pc is idle (no call)   *)
(* or loop (at the test of the inner loop), digit is the call's local.     *)
(* group is the group the call took (-1: nil, or no call yet), consumed    *)
(* the integer the groups taken so far write in base 10^n (nil counts as a *)
(* group of 0), calls the number of calls so far.                          *)
(***************************************************************************)
\* The digits drawn of a radicand, and the calls made of a closure.
MaxDigits == 3
MaxCalls == 5

\* The radicands num/denom: 256, 40, 0.0026, 0.26, 2401/400, 3/7 and others
\* of the same sizes, between 1/10001 and 2401.
DigitNums == {1, 2, 3, 26, 40, 256, 2401}

DigitDenoms == {1, 7, 100, 400, 10000, 10001}

DigitInit ==
    /\ \E num \in DigitNums, denom \in DigitDenoms,
          mgr \in {newSqrtManager, newCubeRootManager} :
           gen = [radNum |-> num, radDenom |-> denom,
                  g |-> Generate(num, denom, mgr),
                  digits |-> <<>>, ended |-> FALSE,
                  pc |-> "idle", digit |-> 0, group |-> -1, consumed |-> 0, calls |-> 0]
    /\ MemoIdle

\* The call returns -1: nextGroup == nil && remainder.Sign() == 0.
AtEnd(g) == groups(g, Base(g.mgr)).nil /\ g.remainder = 0

\* The call up to the inner loop: nextGroup := radicanGroups(..); if nextGroup
\* == nil && remainder.Sign() == 0 { return -1 }; remainder = remainder * base
\* (+ nextGroup); digit := 0.
DigitsBegin ==
    /\ gen.pc = "idle"
    /\ gen.calls < MaxCalls
    /\ Len(gen.digits) < MaxDigits \/ AtEnd(gen.g)
    /\ LET base == Base(gen.g.mgr)
           grp  == groups(gen.g, base)
           took == IF grp.nil THEN 0 ELSE grp.group
       IN  IF AtEnd(gen.g)
           THEN gen' = [gen EXCEPT !.g = [@ EXCEPT !.last = -1],
                                   !.ended = TRUE,
                                   !.calls = @ + 1]
           ELSE gen' = [gen EXCEPT !.g = [@ EXCEPT !.num = grp.num,
                                                   !.remainder = @ * base + took],
                                   !.digit = 0,
                                   !.pc = "loop",
                                   !.group = IF grp.nil THEN -1 ELSE grp.group,
                                   !.consumed = @ * base + took,
                                   !.calls = @ + 1]
    /\ UNCHANGED memoVars

\* One round of the inner loop: remainder.Cmp(incr) >= 0 { remainder.Sub(remainder,
\* incr); digit++; manager.Next(incr) }
DigitsLoop ==
    /\ gen.pc = "loop"
    /\ gen.g.remainder >= gen.g.incr
    /\ LET nx == ManagerNext(gen.g.mgr, gen.g.incr)
       IN  gen' = [gen EXCEPT !.g = [@ EXCEPT !.remainder = @ - gen.g.incr,
                                              !.incr = nx.incr,
                                              !.mgr = nx.mgr],
                              !.digit = @ + 1]
    /\ UNCHANGED memoVars

\* The loop ends: manager.NextDigit(incr); return digit
DigitsReturn ==
    /\ gen.pc = "loop"
    /\ gen.g.remainder < gen.g.incr
    /\ LET nd == ManagerNextDigit(gen.g.mgr, gen.g.incr)
       IN  gen' = [gen EXCEPT !.g = [@ EXCEPT !.incr = nd.incr,
                                              !.mgr = nd.mgr,
                                              !.last = gen.digit],
                              !.digits = Append(@, gen.digit),
                              !.pc = "idle"]
    /\ UNCHANGED memoVars

DigitNext ==
    \/ DigitsBegin
    \/ DigitsLoop
    \/ DigitsReturn

DigitSpec == DigitInit /\ [][DigitNext]_vars

\* The call taken in steps is the call RootDigitsCall takes at once.
StepsAreTheCall ==
    (gen.pc = "idle" /\ ~AtEnd(gen.g) /\ Len(gen.digits) < MaxDigits) =>
        LET lp == DigitLoop(gen.g.remainder * Base(gen.g.mgr)
                                + groups(gen.g, Base(gen.g.mgr)).group,
                            gen.g.incr, gen.g.mgr, 0)
        IN  RootDigitsCall(gen.g).last = lp.digit

(***************************************************************************)
(* C33: for num > 0, denom > 0 and base B = 10^n, the exp that             *)
(* computeGroupsFromRational returns has B^(exp-1) <= num/denom < B^exp;   *)
(* every group the groups closure yields is in 0..B-1; and the first digit *)
(* the closure of computeRootDigits returns is in 1..9.                    *)
(***************************************************************************)
\* B^(e-1) <= num/denom < B^e, in integers.
Normalized(num, denom, B, e) ==
    IF e >= 1
    THEN Pow(B, e - 1) * denom <= num /\ num < Pow(B, e) * denom
    ELSE denom <= num * Pow(B, 1 - e) /\ num * Pow(B, -e) < denom

C33_Normalization ==
    LET B == Base(gen.g.mgr)
    IN  /\ Normalized(gen.radNum, gen.radDenom, B, gen.g.exp)
        /\ gen.group \in -1..(B - 1)
        /\ gen.calls >= 1 => gen.group \in 0..(B - 1) \/ gen.g.num = 0
        /\ gen.calls = 1 => gen.group \in 1..(B - 1)
        /\ ~AtEnd(gen.g) => groups(gen.g, B).group \in 0..(B - 1)
        /\ gen.g.num < gen.g.denom
        /\ gen.digits # <<>> => gen.digits[1] \in 1..9

\* The cube root of 3/10001 has the exp -1 and the first digit 6, from the
\* group 299.
C33_Witness ==
    /\ gen.radNum = 3 /\ gen.radDenom = 10001
    /\ gen.g.mgr.n = 3
    /\ gen.g.exp = -1
    /\ gen.digits = <<6>>
    /\ gen.group = 299

\* The square root of 1/10001 has the exp -2, that of 2401 the exp 2.
C33_NegativeAndPositive ==
    \/ gen.radNum = 1 /\ gen.radDenom = 10001 /\ gen.g.mgr.n = 2 /\ gen.g.exp = -2
          /\ gen.digits # <<>>
    \/ gen.radNum = 2401 /\ gen.radDenom = 1 /\ gen.g.mgr.n = 2 /\ gen.g.exp = 2
          /\ gen.digits = <<4, 9>> /\ gen.ended

(***************************************************************************)
(* C34: at every test of the inner loop, with y the integer the digits     *)
(* returned so far and the current digit count write and G the integer the *)
(* groups taken so far write in base 10^n, incr = (y+1)^n - y^n and        *)
(* remainder = G - y^n, and for the cube root incr2 = 6*(y+1).  Between    *)
(* the calls, after NextDigit, the same holds of incr and incr2 with 10*Y  *)
(* for y, Y the integer the digits write, and remainder = G - Y^n.         *)
(***************************************************************************)
\* (y+1)^n - y^n for n = 2 and n = 3, without the powers.
PowerStep(y, n) == IF n = 2 THEN 2 * y + 1 ELSE 3 * y * y + 3 * y + 1

\* incr is (y+1)^n - y^n: by its expansion, and by the powers themselves
\* where they are within TLC's integers (y of MaxDigits digits).
Recurrence(mgr, incr, y) ==
    /\ incr = PowerStep(y, mgr.n)
    /\ y < Pow(10, MaxDigits) => incr = Pow(y + 1, mgr.n) - Pow(y, mgr.n)
    /\ mgr.n = 3 => mgr.incr2 = 6 * (y + 1)

C34_RootManagerRecurrence ==
    LET n == gen.g.mgr.n
        Y == DigitsValue(gen.digits)
        y == 10 * Y + gen.digit
    IN  IF gen.pc = "loop"
        THEN /\ Recurrence(gen.g.mgr, gen.g.incr, y)
             /\ gen.g.remainder = gen.consumed - Pow(y, n)
             /\ gen.g.remainder >= 0
        ELSE /\ Recurrence(gen.g.mgr, gen.g.incr, 10 * Y)
             /\ gen.g.remainder = gen.consumed - Pow(Y, n)
             /\ gen.g.remainder >= 0

\* The cube root of 2401: at the loop test of the second digit, after three
\* rounds, y = 13, G = 2401, incr = 14^3 - 13^3 = 547, incr2 = 84 and
\* remainder = 2401 - 2197 = 204; the loop ends there.
C34_Witness ==
    /\ gen.radNum = 2401 /\ gen.radDenom = 1
    /\ gen.g.mgr.n = 3
    /\ gen.pc = "loop"
    /\ gen.digits = <<1>>
    /\ gen.digit = 3
    /\ gen.consumed = 2401
    /\ gen.g.incr = 547
    /\ gen.g.mgr.incr2 = 84
    /\ gen.g.remainder = 204

(***************************************************************************)
(* C35: every value the closure of computeRootDigits returns is a digit    *)
(* 0..9 or -1: the inner loop is left with a digit count of 9 at most.     *)
(* Once it has returned -1, every later call returns -1 and leaves the     *)
(* closure's state as it was.                                              *)
(***************************************************************************)
DigitOrEnd ==
    /\ gen.digit \in 0..9
    /\ (gen.pc = "loop" /\ gen.digit = 9) => gen.g.remainder < gen.g.incr
    /\ gen.g.last \in -1..9
    /\ \A k \in 1..Len(gen.digits) : gen.digits[k] \in 0..9
    /\ gen.ended <=> (gen.calls > 0 /\ gen.pc = "idle" /\ gen.g.last = -1)

EndStays ==
    gen.ended =>
        /\ gen'.g = gen.g
        /\ gen'.g.last = -1
        /\ gen'.ended
        /\ gen'.pc = "idle"
        /\ gen'.digits = gen.digits

C35_DigitsOrMinusOne ==
    /\ []DigitOrEnd
    /\ [][EndStays]_vars

\* The square root of 2401 has returned 4, 9 and then -1 three times.
C35_Witness ==
    /\ gen.radNum = 2401 /\ gen.radDenom = 1
    /\ gen.g.mgr.n = 2
    /\ gen.digits = <<4, 9>>
    /\ gen.ended
    /\ gen.g.last = -1
    /\ gen.calls = MaxCalls

(***************************************************************************)
(* C36: once Close has returned, every memoizer of the Context is done and *)
(* run() takes no more digits; At(i) then returns at once, without a wait  *)
(* and without a change to the memoizer: the digit at i when i < len(data) *)
(* and -1 otherwise, also when the mantissa goes on beyond len(data).      *)
(***************************************************************************)
\* A call of Close has returned.
CloseHasReturned == cl.pc = "returned" \/ cl.calls > 1

\* Reader r calls At in this step.
CallsAt(r) ==
    /\ th[r].pc \in {"idle", "returned"}
    /\ th'[r] # th[r]
    /\ th'[r].op = "At"

TruncatedAfterClose ==
    CloseHasReturned =>
        /\ \A m \in Created : memo[m].done /\ memo[m].wpc \in {"end", "exited"}
        /\ \A m \in MemoIds : /\ memo'[m].data = memo[m].data
                              /\ memo'[m].iter = memo[m].iter
                              /\ memo'[m].maxLength = memo[m].maxLength
                              /\ memo'[m].wdata = memo[m].wdata
        /\ \A r \in Readers :
               CallsAt(r) =>
                   LET i    == th'[r].index
                       data == memo[th'[r].m].data
                   IN  /\ th'[r].pc = "returned"
                       /\ th'[r].ret = IF i >= 0 /\ i < Len(data) THEN data[i + 1] ELSE -1

C36_AfterClose == [][TruncatedAfterClose]_vars

\* Close has returned on a Number without end of which one chunk is
\* computed: At(99) has returned its last digit and At(100) has returned -1.
C36_Witness ==
    /\ cl.pc = "returned"
    /\ memo[1].iter.repeating # <<>>
    /\ Len(memo[1].data) = kMemoizerChunkSize
    /\ th["r1"].op = "At" /\ th["r1"].index = 99 /\ th["r1"].pc = "returned"
    /\ th["r1"].ret = memo[1].data[100]
    /\ th["r2"].op = "At" /\ th["r2"].index = 100 /\ th["r2"].pc = "returned"
    /\ th["r2"].ret = -1

(***************************************************************************)
(* The formatter's specification: a formatter made by newFormatter with    *)
(* sigDigits >= exponent and either exactDigitCount, any calls of Consume  *)
(* (MaxConsume at most, more than sigDigits among them) and Finish.  fmt   *)
(* holds the formatter f, the number of Consume calls so far and the       *)
(* number of those that CanConsume allowed.                                *)
(***************************************************************************)
MaxConsume == 5

FormatterSigDigits == -2..4

FormatterExponents == -3..4

FormatterDigits == {0, 7}

FormatterNew(sigDigits, exponent, exactDigitCount) ==
    /\ fmt.pc = "idle"
    /\ sigDigits >= exponent
    /\ fmt' = [pc |-> "open",
               f |-> newFormatter(<<>>, sigDigits, exponent, exactDigitCount),
               calls |-> 0, accepted |-> 0]
    /\ UNCHANGED <<gen, ctx, memo, th, cl, fac, vw, usr>>

FormatterConsume(digit) ==
    /\ fmt.pc = "open"
    /\ fmt.calls < MaxConsume
    /\ fmt' = [fmt EXCEPT !.f = Consume(fmt.f, digit),
                          !.calls = @ + 1,
                          !.accepted = IF CanConsume(fmt.f) THEN @ + 1 ELSE @]
    /\ UNCHANGED <<gen, ctx, memo, th, cl, fac, vw, usr>>

FormatterFinish ==
    /\ fmt.pc = "open"
    /\ fmt' = [fmt EXCEPT !.pc = "finished", !.f = Finish(fmt.f)]
    /\ UNCHANGED <<gen, ctx, memo, th, cl, fac, vw, usr>>

FormatterNext ==
    \/ \E s \in FormatterSigDigits, e \in FormatterExponents, x \in BOOLEAN :
           FormatterNew(s, e, x)
    \/ \E d \in FormatterDigits : FormatterConsume(d)
    \/ FormatterFinish

FormatterSpec == Init /\ [][FormatterNext]_vars

(***************************************************************************)
(* C37: for a formatter made with sigDigits >= exponent, whatever          *)
(* exactDigitCount is and whatever Consume calls came before Finish, the   *)
(* text is not empty, has one decimal point at most, neither begins nor    *)
(* ends with it, and begins with "0" followed by "." or by nothing when    *)
(* exponent <= 0; Consume accepts sigDigits digits at most and changes     *)
(* nothing once CanConsume is false.                                       *)
(***************************************************************************)
Points(w) == Cardinality({k \in 1..Len(w) : w[k] = "."})

Shape(w, exponent) ==
    /\ w # <<>>
    /\ Points(w) <= 1
    /\ w[1] # "."
    /\ w[Len(w)] # "."
    /\ exponent <= 0 => w[1] = "0" /\ (Len(w) = 1 \/ w[2] = ".")

C37_ShapeOfRendering ==
    /\ [](fmt.pc = "finished" => Shape(fmt.f.writer, fmt.f.exponent))
    /\ [](fmt.pc \in {"open", "finished"} =>
              /\ ~fmt.f.panic
              /\ fmt.accepted <= Max(fmt.f.sigDigits, 0)
              /\ fmt.accepted = Min(fmt.calls, Max(fmt.f.sigDigits, 0))
              /\ fmt.f.index <= Max(fmt.f.sigDigits, 0)
              /\ Points(fmt.f.writer) <= 1)
    /\ [][(fmt.pc = "open" /\ fmt'.pc = "open" /\ ~CanConsume(fmt.f)) =>
              fmt'.f = fmt.f]_vars

\* A formatter with sigDigits = 2 and exponent = 0, not exact, has written
\* "0.70" for the Consume calls 7, 0, 7, 7, 0, of which it accepted two.
C37_Witness ==
    /\ fmt.pc = "finished"
    /\ fmt.f.sigDigits = 2 /\ fmt.f.exponent = 0 /\ ~fmt.f.exactDigitCount
    /\ fmt.calls = MaxConsume
    /\ fmt.accepted = 2
    /\ fmt.f.writer = <<"0", ".", "7", "0">>

(***************************************************************************)
(* C38: no Format call with a verb of f, F, g, G, v, e, E and a precision  *)
(* >= 0 or none, no String() and no Exact() call, whatever the exponent,   *)
(* makes a formatter with sigDigits < exponent: newFormatter never panics. *)
(***************************************************************************)
C38_PreconditionNeverViolated ==
    /\ fmt.pc # "panic"
    /\ fmt.pc # "idle" => fmt.f.sigDigits >= fmt.f.exponent

\* The precision a call of verb f or F works with
PrecisionOfF(precision) == IF precision < 0 THEN fPrecision ELSE precision

\* The panic is that of the verbs f and F alone, and of the calls whose
\* precision + exponent is past the largest int; Exact()'s formatter has
\* sigDigits >= exponent for every exponent.
C38_PanicOnlyPastInt ==
    /\ fmt.pc = "panic" <=>
           /\ fmt.pc # "idle"
           /\ fmt.verb \in {"f", "F"}
           /\ PrecisionOfF(fmt.precision) + fmt.n.exponent > MaxInt
    /\ \A e \in FormatExponents :
           \E fs \in {newFormatSpec("Exact", -1, e)} :
               ~newFormatter(<<>>, fs.sigDigits, IF fs.sci THEN 0 ELSE e,
                             fs.exactDigitCount).panic

\* Format with verb f and no precision on 0.999 * 10^MaxInt has panicked in
\* newFormatter: sigDigits is 6 + MaxInt wrapped into int.
C38_Panic ==
    /\ fmt.pc = "panic"
    /\ fmt.verb = "f" /\ fmt.precision = -1
    /\ fmt.n.exponent = MaxInt
    /\ fmt.f.sigDigits < fmt.f.exponent
====
